---- MODULE Spec2Model ----
(***************************************************************************)
(* snyk-auto-org: a wrapper around the snyk CLI that resolves a Snyk       *)
(* organization (explicit flag, Git URL match in cache or API, configured  *)
(* default, or none) and launches the wrapped tool with SNYK_CFG_ORG set.  *)
(*                                                                         *)
(* Strings that the code inspects (URLs) are sequences of one-character    *)
(* strings; identifiers that the code only compares are TLA+ strings.      *)
(* Time is counted in ticks, TicksPerSec ticks to the second.              *)
(***************************************************************************)
EXTENDS Integers, Sequences, FiniteSets, TLC

----------------------------------------------------------------------------
(* Bounds of the model *)

\* number of invocations of the wrapper in one behaviour
MaxRuns == 2

\* last tick of the wall clock
MaxTime == 4

\* resolution of the wall clock: ticks in one second
TicksPerSec == 3

\* number of changes made on the server side in one behaviour
MaxApiChanges == 1

\* number of pages in which the server serves a list
MaxPages == 3

\* number of tokens on the command line
MaxTokens == 3

----------------------------------------------------------------------------
(* Go strings package, on sequences of characters *)

HasPrefix(s, p) ==
    /\ Len(p) <= Len(s)
    /\ SubSeq(s, 1, Len(p)) = p

HasSuffix(s, p) ==
    /\ Len(p) <= Len(s)
    /\ SubSeq(s, Len(s) - Len(p) + 1, Len(s)) = p

TrimPrefix(s, p) == IF HasPrefix(s, p) THEN SubSeq(s, Len(p) + 1, Len(s)) ELSE s

TrimSuffix(s, p) == IF HasSuffix(s, p) THEN SubSeq(s, 1, Len(s) - Len(p)) ELSE s

\* strings.Split(s, sep) for a one-character separator
RECURSIVE SplitFrom(_, _, _, _)
SplitFrom(s, sep, i, cur) ==
    IF i > Len(s) THEN <<cur>>
    ELSE IF s[i] = sep THEN <<cur>> \o SplitFrom(s, sep, i + 1, <<>>)
    ELSE SplitFrom(s, sep, i + 1, Append(cur, s[i]))

Split(s, sep) == SplitFrom(s, sep, 1, <<>>)

\* SQL LOWER() on one character and on a string
LowerChar(c) ==
    CASE c = "H" -> "h"
      [] c = "O" -> "o"
      [] c = "R" -> "r"
      [] c = "T" -> "t"
      [] c = "P" -> "p"
      [] c = "S" -> "s"
      [] OTHER -> c

Lower(s) == [i \in 1..Len(s) |-> LowerChar(s[i])]

----------------------------------------------------------------------------
(* String literals *)

S_https == <<"h","t","t","p","s",":","/","/">>
S_http == <<"h","t","t","p",":","/","/">>
S_gitproto == <<"g","i","t",":","/","/">>
S_gitat == <<"g","i","t","@">>
S_dotgit == <<".","g","i","t">>
S_slash == <<"/">>

\* h/o/r : host, owner and repository of the repository under test
S_path == <<"h","/","o","/","r">>

URL_https == S_https \o S_path
URL_http == S_http \o S_path
URL_ssh == S_gitat \o <<"h",":","o","/","r">> \o S_dotgit
URL_httpsGit == S_https \o S_path \o S_dotgit
URL_other == S_https \o <<"h","/","o","/","x">>
URL_bad == <<"x">>
URL_upperPath == S_https \o <<"h","/","O","/","R">>
URL_upperScheme == <<"H","T","T","P","S",":","/","/">> \o S_path

----------------------------------------------------------------------------
(* internal/cmd/git.go *)

\* the value returned on an error
Failure == [ok |-> FALSE]
Success(v) == [ok |-> TRUE, val |-> v]

\* a variant of NormalizeSSH that joins the host and the path without the "/"
NormalizeSSHNoSlash(url) ==
    IF HasPrefix(url, S_gitat)
    THEN LET u == TrimSuffix(url, S_dotgit)
             parts == Split(u, ":")
         IN  IF Len(parts) = 2
             THEN S_https \o TrimPrefix(parts[1], S_gitat) \o parts[2]
             ELSE u
    ELSE url

NormalizeSSH(url) ==
    IF HasPrefix(url, S_gitat)
    THEN LET u == TrimSuffix(url, S_dotgit)
             parts == Split(u, ":")
         IN  IF Len(parts) = 2
             THEN S_https \o TrimPrefix(parts[1], S_gitat) \o S_slash \o parts[2]
             ELSE u
    ELSE url

NormalizeGitProto(url) ==
    IF HasPrefix(url, S_gitproto)
    THEN S_https \o TrimPrefix(TrimSuffix(url, S_dotgit), S_gitproto)
    ELSE url

NormalizeHttp(url) ==
    IF HasPrefix(url, S_http) THEN S_https \o TrimPrefix(url, S_http) ELSE url

NormalizeHttps(url) ==
    IF HasPrefix(url, S_https) THEN TrimSuffix(url, S_dotgit) ELSE url

NormalizeRepoURL(url) ==
    IF url = <<>> THEN Failure
    ELSE LET u == TrimSuffix(NormalizeHttps(NormalizeHttp(NormalizeGitProto(NormalizeSSH(url)))), S_slash)
         IN  IF ~HasPrefix(u, S_https) \/ Len(Split(u, "/")) < 3
             THEN Failure
             ELSE Success(u)

----------------------------------------------------------------------------
(* internal/api: records of the REST API *)

\* Organization {ID, Name, Slug}; the name of O2 collides with the id of O1
O1 == [ID |-> "o1", Name |-> "n1", Slug |-> "s1"]
O2 == [ID |-> "o2", Name |-> "o1", Slug |-> "s2"]
OrgIds == {"o1", "o2"}

\* Target {ID, Attributes.DisplayName, Attributes.URL}
T1 == [ID |-> "t1", DisplayName |-> "d1", URL |-> URL_https]
T2 == [ID |-> "t2", DisplayName |-> "d2", URL |-> URL_http]
TargetUniverse == {T1, T2}
NoOwner == "none"

\* the organization lists the server may hold, in the order it serves them
ApiOrgLists == {<<>>, <<O1>>, <<O1, O2>>, <<O2, O1>>}

\* all orderings of a finite set: the order of rows of an SQL SELECT without
\* ORDER BY is not specified
Orderings(S) ==
    {s \in [1..Cardinality(S) -> S] : \A i, j \in 1..Cardinality(S) : s[i] = s[j] => i = j}

\* the targets the server holds for an organization, in the order it serves them
ApiTargetsOf(owner, orgID) ==
    LET Owned(t) == owner[t.ID] = orgID
    IN  SelectSeq(<<T1, T2>>, Owned)

----------------------------------------------------------------------------
(* time.ParseDuration, time.Format(RFC3339), time.Parse(RFC3339) *)

ParseDuration(str) ==
    CASE str = "24h" -> Success(86400 * TicksPerSec)
      [] str = "1s" -> Success(TicksPerSec)
      [] str = "2s" -> Success(2 * TicksPerSec)
      [] OTHER -> Failure

\* RFC3339 keeps whole seconds: a timestamp text is held as the second it denotes
FormatRFC3339(t) == t \div TicksPerSec

\* a metadata value that is no RFC3339 text
NotATimestamp == -1

\* time.Parse(time.RFC3339, v): the instant, or an error
ParseRFC3339(v) == IF v >= 0 THEN Success(v * TicksPerSec) ELSE Failure

----------------------------------------------------------------------------
(* internal/cache: the SQLite cache *)

LastUpdateKey == <<"last_update">>

\* a variant of TargetsUpdateKey with one key for the targets of all organizations
TargetsUpdateKeyShared(orgID) == <<"targets_update">>

TargetsUpdateKey(orgID) == <<"targets_update_", orgID>>

\* a variant of InsertOrReplace that keeps the stored row: INSERT OR IGNORE
InsertOrIgnore(table, row) ==
    IF \E r \in table : r.id = row.id THEN table ELSE table \cup {row}

\* INSERT OR REPLACE INTO organizations / targets: the primary key is id
InsertOrReplace(table, row) == {r \in table : r.id # row.id} \cup {row}

\* INSERT OR REPLACE INTO metadata: the primary key is key
InsertMetadata(meta, key, value) ==
    {m \in meta : m.key # key} \cup {[key |-> key, value |-> value]}

OrgRow(org) == [id |-> org.ID, name |-> org.Name, slug |-> org.Slug]
RowOrg(row) == [ID |-> row.id, Name |-> row.name, Slug |-> row.slug]

TargetRow(orgID, t) ==
    [id |-> t.ID, org_id |-> orgID, display_name |-> t.DisplayName, url |-> t.URL]
RowTarget(row) == [ID |-> row.id, DisplayName |-> row.display_name, URL |-> row.url]

RECURSIVE InsertOrgs(_, _, _)
InsertOrgs(table, orgs, i) ==
    IF i > Len(orgs) THEN table
    ELSE InsertOrgs(InsertOrReplace(table, OrgRow(orgs[i])), orgs, i + 1)

\* StoreOrganizations: one transaction
StoreOrganizations(table, meta, orgs, t) ==
    [organizations |-> InsertOrgs(table, orgs, 1),
     metadata |-> InsertMetadata(meta, LastUpdateKey, FormatRFC3339(t))]

\* GetOrganizations: the possible results of the SELECT
GetOrganizations(table) == {[i \in 1..Len(s) |-> RowOrg(s[i])] : s \in Orderings(table)}

RECURSIVE InsertTargets(_, _, _, _)
InsertTargets(table, orgID, ts, i) ==
    IF i > Len(ts) THEN table
    ELSE InsertTargets(InsertOrReplace(table, TargetRow(orgID, ts[i])), orgID, ts, i + 1)

\* a variant of NothingToStore that never skips the transaction
NothingToStoreNever(ts) == FALSE

\* StoreTargets, lines 1356-1358: the early return for an empty list
NothingToStore(ts) == Len(ts) = 0

\* StoreTargets: nothing for an empty list, else one transaction
StoreTargets(table, meta, orgID, ts, t) ==
    IF NothingToStore(ts)
    THEN [targets |-> table, metadata |-> meta]
    ELSE [targets |-> InsertTargets(table, orgID, ts, 1),
          metadata |-> InsertMetadata(meta, TargetsUpdateKey(orgID), FormatRFC3339(t))]

\* GetTargetsByOrgID: the possible results of the SELECT
GetTargetsByOrgID(table, orgID) ==
    {[i \in 1..Len(s) |-> RowTarget(s[i])] : s \in Orderings({r \in table : r.org_id = orgID})}

\* the http:// and https:// variants built before every URL comparison
HttpVariant(url) ==
    IF HasPrefix(url, S_https) THEN S_http \o TrimPrefix(url, S_https)
    ELSE IF HasPrefix(url, S_http) THEN url
    ELSE S_http \o url

HttpsVariant(url) ==
    IF HasPrefix(url, S_https) THEN url
    ELSE IF HasPrefix(url, S_http) THEN S_https \o TrimPrefix(url, S_http)
    ELSE S_https \o url

\* selectTargetsByURLSQL: targets JOIN organizations, LOWER(url) against both
\* parameters; one joined row per selected target
SelectTargetsByURL(tgtTable, orgTable, httpVariant, httpsVariant) ==
    {p \in tgtTable \X orgTable :
        /\ p[1].org_id = p[2].id
        /\ \/ Lower(p[1].url) = Lower(httpVariant)
           \/ Lower(p[1].url) = Lower(httpsVariant)}

\* GetTargetsByURL: the OrgTarget values scanned from the selected rows
GetTargetsByURL(tgtTable, orgTable, url) ==
    {[OrgID |-> r.org_id, OrgName |-> o.name, TargetURL |-> r.url, TargetName |-> r.display_name] :
        <<r, o>> \in SelectTargetsByURL(tgtTable, orgTable, HttpVariant(url), HttpsVariant(url))}

\* a variant of MetadataExpired for which an entry expires when its age reaches ttl
MetadataExpiredAtTTL(meta, key, ttl, t) ==
    LET rows == {m \in meta : m.key = key}
    IN  IF rows = {} THEN [expired |-> TRUE, err |-> FALSE]
        ELSE LET lastUpdate == ParseRFC3339((CHOOSE m \in rows : TRUE).value)
             IN  IF ~lastUpdate.ok THEN [expired |-> TRUE, err |-> TRUE]
                 ELSE [expired |-> t - lastUpdate.val >= ttl, err |-> FALSE]

\* the metadata lookup shared by IsExpired and IsTargetsCacheExpired
MetadataExpired(meta, key, ttl, t) ==
    LET rows == {m \in meta : m.key = key}
    IN  IF rows = {} THEN [expired |-> TRUE, err |-> FALSE]
        ELSE LET lastUpdate == ParseRFC3339((CHOOSE m \in rows : TRUE).value)
             IN  IF ~lastUpdate.ok THEN [expired |-> TRUE, err |-> TRUE]
                 ELSE [expired |-> t - lastUpdate.val > ttl, err |-> FALSE]

IsExpired(meta, ttl, t) == MetadataExpired(meta, LastUpdateKey, ttl, t)

IsTargetsCacheExpired(meta, orgID, ttl, t) ==
    MetadataExpired(meta, TargetsUpdateKey(orgID), ttl, t)

----------------------------------------------------------------------------
(* internal/cmd/executor.go and the exit status of the process *)

SNYK_CFG_ORG == "SNYK_CFG_ORG"

\* a variant of ChildEnv that sets the variable even when OrgID is empty
ChildEnvAlways(environ, OrgID) == Append(environ, <<SNYK_CFG_ORG, OrgID>>)

\* cmd.Env of the child: os.Environ() plus the variable when OrgID is not empty
ChildEnv(environ, OrgID) ==
    IF OrgID # "" THEN Append(environ, <<SNYK_CFG_ORG, OrgID>>) ELSE environ

\* the value of a variable in an environment: the last entry for a key is used
EnvLookup(env, key) ==
    LET idx == {i \in 1..Len(env) : env[i][1] = key}
    IN  IF idx = {} THEN Failure
        ELSE Success(env[CHOOSE i \in idx : \A j \in idx : j <= i][2])

\* cmd.Run() returns an error exactly when the child ends with a non-zero code
RunError(code) == code # 0

\* rootCmd.Run: os.Exit(1) on any error of run, else the process ends with 0
ExitStatus(failed) == IF failed THEN 1 ELSE 0

----------------------------------------------------------------------------
(* internal/app: helpers of run *)

\* the value GetString("cache-ttl") returns: the flag's default when not given
NotSupplied == [ok |-> FALSE]
CacheTTLFlagValue(flag) == IF flag.ok THEN flag.val ELSE "24h"

\* lines 60-67 of run: the TTL of the run, or Failure for an invalid flag value
EffectiveTTL(flag, fileTTL) ==
    LET cacheTTLStr == CacheTTLFlagValue(flag)
    IN  IF cacheTTLStr # "" THEN ParseDuration(cacheTTLStr) ELSE Success(fileTTL)

\* a variant of MatchesOrg that does not compare the slug
MatchesOrgNoSlug(org, opt) == org.ID = opt \/ org.Name = opt

MatchesOrg(org, opt) == org.ID = opt \/ org.Name = opt \/ org.Slug = opt

\* a variant of FirstMatch that falls back to the first organization of the list
FirstMatchOrFirst(orgs, opt) ==
    LET idx == {i \in 1..Len(orgs) : MatchesOrg(orgs[i], opt)}
    IN  IF idx # {} THEN Success(orgs[CHOOSE i \in idx : \A j \in idx : i <= j])
        ELSE IF Len(orgs) > 0 THEN Success(orgs[1])
        ELSE Failure

\* the loops of run over the organizations: the first match, if any
FirstMatch(orgs, opt) ==
    LET idx == {i \in 1..Len(orgs) : MatchesOrg(orgs[i], opt)}
    IN  IF idx = {} THEN Failure
        ELSE Success(orgs[CHOOSE i \in idx : \A j \in idx : i <= j])

\* the scan of findOrgByGitURL over the targets of one organization
TargetsMatch(ts, gitURL) ==
    \E i \in 1..Len(ts) : ts[i].URL = HttpVariant(gitURL) \/ ts[i].URL = HttpsVariant(gitURL)

\* a variant of getOrganizations that stores the organizations of the pages read
\* before the page that failed
GetOrganizationsOutcomesPartial(orgTable, meta, ttl, t, tokenOK, serverOrgs) ==
    LET st == StoreOrganizations(orgTable, meta, SubSeq(serverOrgs, 1, 1), t)
    IN  {[ok |-> FALSE, orgs |-> <<>>, organizations |-> st.organizations,
          metadata |-> st.metadata, tokenRead |-> TRUE, apiRequest |-> TRUE,
          apiFailed |-> TRUE, ttlChecked |-> ttl]}

\* getOrganizations: the possible outcomes, given whether the token is usable and
\* the list the server holds
GetOrganizationsOutcomes(orgTable, meta, ttl, t, tokenOK, serverOrgs) ==
    LET expired == IsExpired(meta, ttl, t)
        cached == IF expired.expired THEN {}
                  ELSE {o \in GetOrganizations(orgTable) : Len(o) > 0}
        base == [ok |-> FALSE, orgs |-> <<>>, organizations |-> orgTable, metadata |-> meta,
                 tokenRead |-> FALSE, apiRequest |-> FALSE, apiFailed |-> FALSE,
                 ttlChecked |-> ttl]
    IN  IF expired.err THEN {base}
        ELSE IF cached # {}
        THEN {[base EXCEPT !.ok = TRUE, !.orgs = o] : o \in cached}
        ELSE IF ~tokenOK
        THEN {[base EXCEPT !.tokenRead = TRUE]}
        ELSE LET st == StoreOrganizations(orgTable, meta, serverOrgs, t)
             IN  {[base EXCEPT !.tokenRead = TRUE, !.apiRequest = TRUE, !.apiFailed = TRUE],
                  [base EXCEPT !.ok = TRUE, !.orgs = serverOrgs, !.tokenRead = TRUE,
                               !.apiRequest = TRUE, !.organizations = st.organizations,
                               !.metadata = st.metadata]}

\* getTargets: the possible outcomes for one organization
GetTargetsOutcomes(tgtTable, meta, orgID, ttl, t, serverOrgs, owner) ==
    LET expired == IsTargetsCacheExpired(meta, orgID, ttl, t)
        cached == IF expired.expired THEN {}
                  ELSE {x \in GetTargetsByOrgID(tgtTable, orgID) : Len(x) > 0}
        base == [ok |-> FALSE, targets |-> <<>>, table |-> tgtTable, metadata |-> meta,
                 apiRequest |-> FALSE, apiFailed |-> FALSE, ttlChecked |-> ttl]
        known == \E i \in 1..Len(serverOrgs) : serverOrgs[i].ID = orgID
        fetched == ApiTargetsOf(owner, orgID)
        st == StoreTargets(tgtTable, meta, orgID, fetched, t)
    IN  IF expired.err THEN {base}
        ELSE IF cached # {}
        THEN {[base EXCEPT !.ok = TRUE, !.targets = x] : x \in cached}
        ELSE {[base EXCEPT !.apiRequest = TRUE, !.apiFailed = TRUE]} \cup
             (IF known
              THEN {[base EXCEPT !.ok = TRUE, !.targets = fetched, !.apiRequest = TRUE,
                                 !.table = st.targets, !.metadata = st.metadata]}
              ELSE {})

----------------------------------------------------------------------------
(* The inputs of an invocation *)

\* cache_ttl and default_org of the configuration file
ConfigFileTTLs == {"2s"}
DefaultOrgs == {"", "o1", "zz"}

\* --cache-ttl: not given, or given with a value
CacheTTLFlags == {NotSupplied, Success("1s"), Success("soon")}

\* --org
OrgOptions == {"", "o1", "s2", "zz"}

\* --git-url
GitURLFlags == {<<>>, URL_https}

\* what `git remote get-url origin` prints, or Failure when it fails
Remotes == {Failure, Success(URL_ssh), Success(URL_bad)}

\* the pass-through arguments
ArgLists == {<<>>, <<"test">>}

\* the environment of the wrapper
Environs == {<< <<"HOME", "/root">> >>,
             << <<"HOME", "/root">>, <<SNYK_CFG_ORG, "inherited">> >>}

\* the exit codes of the wrapped tool
ExitCodes == {0, 2}

----------------------------------------------------------------------------
(* State *)

VARIABLES
    now,            \* the wall clock, in ticks
    organizations,  \* cache table organizations
    targets,        \* cache table targets
    metadata,       \* cache table metadata
    apiOrgs,        \* the organizations the server holds
    apiOwner,       \* the organization that owns each target on the server
    tokenValid,     \* the token store holds a usable token
    nRuns,          \* invocations started so far
    nApiChanges,    \* server-side changes so far
    pc,             \* position of the running invocation in run
    run             \* the local state of the running invocation, and what it did

vars == <<now, organizations, targets, metadata, apiOrgs, apiOwner, tokenValid,
          nRuns, nApiChanges, pc, run>>

cacheVars == <<organizations, targets, metadata>>
worldVars == <<now, apiOrgs, apiOwner, tokenValid, nApiChanges>>

\* the local state of run at process start
NewRun ==
    [read |-> {},
     cfgFileTTL |-> "24h", cacheTTLFlag |-> NotSupplied,
     CacheTTL |-> 0, DefaultOrg |-> "", Verbose |-> FALSE,
     orgOption |-> "", listOrgs |-> FALSE,
     gitURLFlag |-> <<>>, autoDetectGit |-> FALSE, remote |-> Failure,
     args |-> <<>>,
     organizations |-> <<>>, listed |-> FALSE, ret |-> "", retErr |-> "",
     cachedAtLookup |-> [organizations |-> {}, targets |-> {}, metadata |-> {}],
     gitURL |-> <<>>, idx |-> 1, orgID |-> "", by |-> "",
     ttlChecks |-> {}, tokenReads |-> 0, apiRequests |-> 0, apiFailures |-> 0,
     cacheErrors |-> 0,
     gitDetections |-> 0, urlLookups |-> 0, targetLookups |-> 0, defaultLookups |-> 0,
     output |-> "",
     launched |-> FALSE, childArgs |-> <<>>, environ |-> <<>>, childEnv |-> <<>>,
     childCode |-> 0, err |-> "", exitCode |-> 0]

Init ==
    /\ now = 0
    /\ organizations = {}
    /\ targets = {}
    /\ metadata = {}
    /\ apiOrgs \in {<<O1, O2>>, <<O2, O1>>}
    /\ apiOwner \in {[t1 |-> "o1", t2 |-> NoOwner], [t1 |-> "o1", t2 |-> "o2"],
                    [t1 |-> NoOwner, t2 |-> NoOwner]}
    /\ tokenValid \in BOOLEAN
    /\ nRuns = 0
    /\ nApiChanges = 0
    /\ pc = "idle"
    /\ run = NewRun

\* the process ends: with an error printed and status 1, or with status 0
Fail(r, kind) == [r EXCEPT !.err = kind, !.exitCode = ExitStatus(TRUE)]
Finish(r) == [r EXCEPT !.exitCode = ExitStatus(FALSE)]

----------------------------------------------------------------------------
(* The environment *)

Tick ==
    /\ pc = "idle"
    /\ nRuns > 0
    /\ now < MaxTime
    /\ now' = now + 1
    /\ UNCHANGED <<organizations, targets, metadata, apiOrgs, apiOwner, tokenValid,
                   nRuns, nApiChanges, pc, run>>

\* the server's organization list changes
ApiSetOrgs ==
    /\ pc = "idle"
    /\ nRuns > 0
    /\ nApiChanges < MaxApiChanges
    /\ \E l \in ApiOrgLists \ {apiOrgs} : apiOrgs' = l
    /\ nApiChanges' = nApiChanges + 1
    /\ UNCHANGED <<now, organizations, targets, metadata, apiOwner, tokenValid,
                   nRuns, pc, run>>

\* a target is created, deleted or moved on the server
ApiMoveTarget ==
    /\ pc = "idle"
    /\ nRuns > 0
    /\ nApiChanges < MaxApiChanges
    /\ \E t \in {"t1", "t2"}, o \in OrgIds \cup {NoOwner} :
         /\ apiOwner[t] # o
         /\ apiOwner' = [apiOwner EXCEPT ![t] = o]
    /\ nApiChanges' = nApiChanges + 1
    /\ UNCHANGED <<now, organizations, targets, metadata, apiOrgs, tokenValid,
                   nRuns, pc, run>>

\* the stored token expires and cannot be refreshed
TokenExpire ==
    /\ pc = "idle"
    /\ nRuns > 0
    /\ tokenValid
    /\ tokenValid' = FALSE
    /\ UNCHANGED <<now, organizations, targets, metadata, apiOrgs, apiOwner,
                   nRuns, nApiChanges, pc, run>>

----------------------------------------------------------------------------
(* internal/app: run, step by step *)

\* lines 48-74: the configuration is loaded and overridden by the flags
\* (default_org and verbose are drawn where run first reads them)
RunLoadConfig ==
    /\ pc = "idle"
    /\ nRuns < MaxRuns
    /\ nRuns' = nRuns + 1
    /\ \E fileTTL \in ConfigFileTTLs, flag \in CacheTTLFlags :
         LET ttl == EffectiveTTL(flag, ParseDuration(fileTTL).val)
             r == [NewRun EXCEPT !.read = {"cache-ttl"}, !.cfgFileTTL = fileTTL,
                                 !.cacheTTLFlag = flag]
         IN  IF ttl.ok
             THEN /\ run' = [r EXCEPT !.CacheTTL = ttl.val]
                  /\ pc' = "reset_flag"
             ELSE /\ run' = Fail(r, "invalid cache TTL")
                  /\ pc' = "done"
    /\ UNCHANGED <<cacheVars, worldVars>>

\* the process has ended
Exit ==
    /\ pc = "done"
    /\ pc' = "idle"
    /\ run' = NewRun
    /\ UNCHANGED <<cacheVars, worldVars, nRuns>>

\* lines 76-84: --reset-cache
RunResetFlag ==
    /\ pc = "reset_flag"
    /\ \E resetCache \in BOOLEAN :
         /\ run' = [run EXCEPT !.read = @ \cup {"reset-cache"}]
         /\ pc' = IF resetCache THEN "reset_targets" ELSE "org_flag"
    /\ UNCHANGED <<cacheVars, worldVars, nRuns>>

\* ResetCache: three statements, each committed on its own
ResetDeleteTargets ==
    /\ pc = "reset_targets"
    /\ targets' = {}
    /\ pc' = "reset_organizations"
    /\ UNCHANGED <<organizations, metadata, worldVars, nRuns, run>>

ResetDeleteOrganizations ==
    /\ pc = "reset_organizations"
    /\ organizations' = {}
    /\ pc' = "reset_metadata"
    /\ UNCHANGED <<targets, metadata, worldVars, nRuns, run>>

ResetDeleteMetadata ==
    /\ pc = "reset_metadata"
    /\ metadata' = {}
    /\ pc' = "org_flag"
    /\ UNCHANGED <<organizations, targets, worldVars, nRuns, run>>

\* lines 86-92: --org
\* (this branch returns without reading --list-orgs, whose value is drawn here)
RunOrgFlag ==
    /\ pc = "org_flag"
    /\ \E orgOption \in OrgOptions, listOrgs \in BOOLEAN :
         IF orgOption # ""
         THEN /\ run' = [run EXCEPT !.read = @ \cup {"org", "list-orgs"},
                                    !.orgOption = orgOption, !.listOrgs = listOrgs,
                                    !.ret = "org_match", !.retErr = "fatal"]
              /\ pc' = "get_organizations"
         ELSE /\ ~listOrgs
              /\ run' = [run EXCEPT !.read = @ \cup {"org"}, !.orgOption = orgOption]
              /\ pc' = "list_flag"
    /\ UNCHANGED <<cacheVars, worldVars, nRuns>>

\* getOrganizations, called from five places of run and findOrgByGitURL
CallGetOrganizations ==
    /\ pc = "get_organizations"
    /\ \E out \in GetOrganizationsOutcomes(organizations, metadata, run.CacheTTL, now,
                                           tokenValid, apiOrgs) :
         LET r == [run EXCEPT !.ttlChecks = @ \cup {out.ttlChecked},
                              !.tokenReads = @ + (IF out.tokenRead THEN 1 ELSE 0),
                              !.apiRequests = @ + (IF out.apiRequest THEN 1 ELSE 0),
                              !.apiFailures = @ + (IF out.apiFailed THEN 1 ELSE 0)]
         IN  /\ organizations' = out.organizations
             /\ metadata' = out.metadata
             /\ IF out.ok
                THEN /\ run' = [r EXCEPT !.organizations = out.orgs, !.listed = TRUE]
                     /\ pc' = run.ret
                ELSE IF run.retErr = "fatal"
                THEN /\ run' = Fail(r, "failed to get organizations")
                     /\ pc' = "done"
                ELSE /\ run' = r
                     /\ pc' = run.retErr
    /\ UNCHANGED <<targets, worldVars, nRuns>>

\* lines 94-113: the organization named by --org
RunOrgMatch ==
    /\ pc = "org_match"
    /\ LET m == FirstMatch(run.organizations, run.orgOption)
       IN  IF m.ok
           THEN /\ run' = [run EXCEPT !.orgID = m.val.ID, !.by = "org"]
                /\ pc' = "execute"
           ELSE /\ run' = Fail(run, "organization not found")
                /\ pc' = "done"
    /\ UNCHANGED <<cacheVars, worldVars, nRuns>>

\* lines 116-121: --list-orgs
RunListFlag ==
    /\ pc = "list_flag"
    /\ \E listOrgs \in BOOLEAN :
         IF listOrgs
         THEN /\ run' = [run EXCEPT !.read = @ \cup {"list-orgs"}, !.listOrgs = TRUE,
                                    !.ret = "list_print", !.retErr = "fatal"]
              /\ pc' = "get_organizations"
         ELSE /\ run' = [run EXCEPT !.read = @ \cup {"list-orgs"}]
              /\ pc' = "new_client"
    /\ UNCHANGED <<cacheVars, worldVars, nRuns>>

\* lines 123-127
RunListPrint ==
    /\ pc = "list_print"
    /\ run' = Finish([run EXCEPT !.output = "organizations"])
    /\ pc' = "done"
    /\ UNCHANGED <<cacheVars, worldVars, nRuns>>

\* lines 130-134: api.NewSnykClient reads the token store
RunNewClient ==
    /\ pc = "new_client"
    /\ LET r == [run EXCEPT !.tokenReads = @ + 1]
       IN  IF tokenValid
           THEN /\ run' = r
                /\ pc' = "git_flags"
           ELSE /\ run' = Fail(r, "failed to create Snyk client")
                /\ pc' = "done"
    /\ UNCHANGED <<cacheVars, worldVars, nRuns>>

\* lines 136-143: --git-url and --auto-detect-git (drawn when run tests it)
RunGitFlags ==
    /\ pc = "git_flags"
    /\ \E gitURL \in GitURLFlags, autoDetectGit \in BOOLEAN :
         /\ gitURL # <<>> => autoDetectGit
         /\ LET r == [run EXCEPT !.read = @ \cup {"git-url"} \cup
                                    (IF gitURL = <<>> THEN {"auto-detect-git"} ELSE {}),
                                 !.gitURLFlag = gitURL, !.autoDetectGit = autoDetectGit,
                                 !.gitURL = gitURL]
            IN  /\ run' = r
                /\ pc' = IF gitURL = <<>> /\ autoDetectGit THEN "detect"
                         ELSE IF gitURL # <<>> THEN "find_cache"
                         ELSE "default"
    /\ UNCHANGED <<cacheVars, worldVars, nRuns>>

\* GetGitRemoteURL: git remote get-url origin, then NormalizeRepoURL
GetGitRemoteURL(remote) ==
    IF ~remote.ok THEN Failure
    ELSE IF remote.val = <<>> THEN Failure
    ELSE NormalizeRepoURL(remote.val)

\* a variant of DetectFailureNext that goes on to the default organization
DetectFailureFallsThrough == "default"

\* lines 146-155: where run goes when the remote cannot be detected: it executes
\* the tool with no organization
DetectFailureNext == "execute"

\* lines 143-162: detection of the remote (on a failure run ends without reading
\* cfg.DefaultOrg, whose value is drawn here)
RunDetect ==
    /\ pc = "detect"
    /\ \E remote \in Remotes, defaultOrg \in DefaultOrgs :
         LET detectedURL == GetGitRemoteURL(remote)
             r == [run EXCEPT !.read = @ \cup {"remote"}, !.remote = remote,
                              !.gitDetections = @ + 1]
         IN  IF ~detectedURL.ok
             THEN /\ run' = [r EXCEPT !.orgID = "", !.by = "none",
                                      !.read = @ \cup {"default_org"},
                                      !.DefaultOrg = defaultOrg]
                  /\ pc' = DetectFailureNext
             ELSE /\ defaultOrg = ""
                  /\ run' = [r EXCEPT !.gitURL = detectedURL.val]
                  /\ pc' = IF detectedURL.val # <<>> THEN "find_cache" ELSE "default"
    /\ UNCHANGED <<cacheVars, worldVars, nRuns>>

\* findOrgByGitURL, lines 269-284: the lookup in the cache; the query may fail with a
\* storage error (a failure is drawn where the query would have found a row: where it
\* would have found none, run goes the same way with and without the error)
FindCacheLookup ==
    /\ pc = "find_cache"
    /\ \E queryFails \in BOOLEAN :
         LET found == GetTargetsByURL(targets, organizations, run.gitURL)
             cachedOrgTargets == IF queryFails /\ found # {} THEN {} ELSE found
             r == [run EXCEPT !.urlLookups = @ + 1,
                              !.cacheErrors = @ + (IF queryFails /\ found # {} THEN 1 ELSE 0),
                              !.cachedAtLookup = [organizations |-> organizations,
                                                  targets |-> targets,
                                                  metadata |-> metadata]]
         IN  IF cachedOrgTargets # {}
             THEN /\ \E first \in cachedOrgTargets :
                       run' = [r EXCEPT !.orgID = first.OrgID, !.by = "cache"]
                  /\ pc' = "found"
             ELSE /\ run' = [r EXCEPT !.ret = "find_loop", !.retErr = "default", !.idx = 1]
                  /\ pc' = "get_organizations"
    /\ UNCHANGED <<cacheVars, worldVars, nRuns>>

\* findOrgByGitURL, lines 301-325: one iteration of the loop over the organizations
FindLoopStep ==
    /\ pc = "find_loop"
    /\ IF run.idx > Len(run.organizations)
       THEN /\ run' = run
            /\ pc' = "default"
            /\ UNCHANGED <<targets, metadata>>
       ELSE LET org == run.organizations[run.idx]
            IN  \E out \in GetTargetsOutcomes(targets, metadata, org.ID, run.CacheTTL, now,
                                              apiOrgs, apiOwner) :
                  LET r == [run EXCEPT !.ttlChecks = @ \cup {out.ttlChecked},
                                       !.targetLookups = @ + 1,
                                       !.apiRequests = @ + (IF out.apiRequest THEN 1 ELSE 0),
                                       !.apiFailures = @ + (IF out.apiFailed THEN 1 ELSE 0)]
                  IN  /\ targets' = out.table
                      /\ metadata' = out.metadata
                      /\ IF out.ok /\ TargetsMatch(out.targets, run.gitURL)
                         THEN /\ run' = [r EXCEPT !.orgID = org.ID, !.by = "api"]
                              /\ pc' = "found"
                         ELSE /\ run' = [r EXCEPT !.idx = @ + 1]
                              /\ pc' = "find_loop"
    /\ UNCHANGED <<organizations, worldVars, nRuns>>

\* lines 171-188: an organization was found by URL; verbose mode looks up its name
RunFound ==
    /\ pc = "found"
    /\ \E verbose \in BOOLEAN :
         LET r == [run EXCEPT !.read = @ \cup {"verbose"}, !.Verbose = verbose]
         IN  IF verbose
             THEN /\ run' = [r EXCEPT !.ret = "execute", !.retErr = "execute"]
                  /\ pc' = "get_organizations"
             ELSE /\ run' = r
                  /\ pc' = "execute"
    /\ UNCHANGED <<cacheVars, worldVars, nRuns>>

\* lines 198-203: the default organization of the configuration
RunDefault ==
    /\ pc = "default"
    /\ \E defaultOrg \in DefaultOrgs :
         /\ "default_org" \in run.read => defaultOrg = run.DefaultOrg
         /\ LET r == [run EXCEPT !.read = @ \cup {"default_org"}, !.DefaultOrg = defaultOrg]
            IN  IF defaultOrg # ""
                THEN /\ run' = [r EXCEPT !.ret = "default_match", !.retErr = "fatal",
                                         !.defaultLookups = @ + 1]
                     /\ pc' = "get_organizations"
                ELSE /\ run' = r
                     /\ pc' = "no_org"
    /\ UNCHANGED <<cacheVars, worldVars, nRuns>>

\* lines 205-215
RunDefaultMatch ==
    /\ pc = "default_match"
    /\ LET m == FirstMatch(run.organizations, run.DefaultOrg)
       IN  IF m.ok
           THEN /\ run' = [run EXCEPT !.orgID = m.val.ID, !.by = "default"]
                /\ pc' = "execute"
           ELSE /\ run' = run
                /\ pc' = "no_org"
    /\ UNCHANGED <<cacheVars, worldVars, nRuns>>

\* lines 217-227: no organization
RunNoOrg ==
    /\ pc = "no_org"
    /\ \E args \in ArgLists :
         LET r == [run EXCEPT !.read = @ \cup {"args"}, !.args = args]
         IN  IF Len(args) = 0
             THEN /\ run' = Finish([r EXCEPT !.output = "help"])
                  /\ pc' = "done"
             ELSE /\ run' = [r EXCEPT !.orgID = "", !.by = "none"]
                  /\ pc' = "execute"
    /\ UNCHANGED <<cacheVars, worldVars, nRuns>>

\* a variant of Execute without the test of len(args): the tool is launched with
\* whatever arguments it is given
ExecuteUnchecked ==
    /\ pc = "execute"
    /\ \E args \in ArgLists, environ \in Environs, code \in ExitCodes :
         /\ "args" \in run.read => args = run.args
         /\ run' = [run EXCEPT !.read = @ \cup {"args", "environ"}, !.args = args,
                                !.environ = environ,
                                !.launched = TRUE, !.childArgs = args,
                                !.childEnv = ChildEnv(environ, run.orgID),
                                !.childCode = code,
                                !.err = IF RunError(code) THEN "exit status" ELSE "",
                                !.exitCode = ExitStatus(RunError(code))]
    /\ pc' = "done"
    /\ UNCHANGED <<cacheVars, worldVars, nRuns>>

\* SnykExecutor.Execute, and the end of the process
Execute ==
    /\ pc = "execute"
    /\ \E args \in ArgLists :
         /\ "args" \in run.read => args = run.args
         /\ LET r == [run EXCEPT !.read = @ \cup {"args"}, !.args = args]
            IN  IF Len(args) = 0
                THEN run' = Fail(r, "no arguments provided")
                ELSE \E environ \in Environs, code \in ExitCodes :
                       run' = [r EXCEPT !.read = @ \cup {"environ"}, !.environ = environ,
                                        !.launched = TRUE, !.childArgs = args,
                                        !.childEnv = ChildEnv(environ, run.orgID),
                                        !.childCode = code,
                                        !.err = IF RunError(code) THEN "exit status" ELSE "",
                                        !.exitCode = ExitStatus(RunError(code))]
    /\ pc' = "done"
    /\ UNCHANGED <<cacheVars, worldVars, nRuns>>

Next ==
    \/ Tick
    \/ ApiSetOrgs
    \/ ApiMoveTarget
    \/ TokenExpire
    \/ RunLoadConfig
    \/ Exit
    \/ RunResetFlag
    \/ ResetDeleteTargets
    \/ ResetDeleteOrganizations
    \/ ResetDeleteMetadata
    \/ RunOrgFlag
    \/ CallGetOrganizations
    \/ RunOrgMatch
    \/ RunListFlag
    \/ RunListPrint
    \/ RunNewClient
    \/ RunGitFlags
    \/ RunDetect
    \/ FindCacheLookup
    \/ FindLoopStep
    \/ RunFound
    \/ RunDefault
    \/ RunDefaultMatch
    \/ RunNoOrg
    \/ Execute

Spec == Init /\ [][Next]_vars

-----------------------------------------------------------------------------
(* internal/cache on its own: the methods of SQLiteCache called in any order on *)
(* one database file, statement by statement, every statement liable to fail   *)
(* with a storage error. The variables organizations, targets and metadata     *)
(* are what the file holds, that is, what any other connection reads.          *)

CacheContents == [organizations |-> organizations, targets |-> targets, metadata |-> metadata]
EmptyCache == [organizations |-> {}, targets |-> {}, metadata |-> {}]

\* a variant of TxView in which every statement is committed on its own
TxViewAutocommit(committed, pending) == pending

\* what the file holds while a transaction is open: the statements executed on tx
\* (Beginx, tx.Exec) are not visible before Commit and are dropped by Rollback
TxView(committed, pending) == committed

\* sqlx.Connect("sqlite3", dbPath): no _foreign_keys parameter and no PRAGMA, so
\* SQLite does not enforce the FOREIGN KEY clause of the targets table
ForeignKeysEnforced == FALSE

\* the arguments of the calls
StoredOrgLists ==
    {<<O1>>, <<O2, O1>>, <<[O1 EXCEPT !.Name = "n3"], [O1 EXCEPT !.Slug = "s3"]>>}
T3 == [ID |-> "t3", DisplayName |-> "d3", URL |-> URL_https]
StoredTargetLists == {<<>>, <<T1>>, <<T1, T2>>, <<T3>>}
LookupURLs == {URL_https, URL_http, URL_upperPath, URL_upperScheme, URL_other}
CheckedTTLs == {1, TicksPerSec}

\* the caller between two calls
NoCall ==
    [op |-> "", before |-> EmptyCache, pending |-> EmptyCache, table |-> "",
     orgID |-> "", list |-> <<>>, rows |-> <<>>, key |-> <<>>, i |-> 1, err |-> FALSE,
     ttl |-> 0, expired |-> FALSE, ok |-> FALSE, apiRequest |-> FALSE,
     url |-> <<>>, selected |-> {}, found |-> {}]

CacheInit ==
    /\ now = 0
    /\ organizations = {}
    /\ targets = {}
    /\ metadata = {}
    /\ apiOrgs = <<O1, O2>>
    /\ apiOwner = [t1 |-> "o1", t2 |-> "o2"]
    /\ tokenValid = TRUE
    /\ nRuns = 0
    /\ nApiChanges = 0
    /\ pc = "ready"
    /\ run = NoCall

\* the file after a step
WriteFile(contents) ==
    /\ organizations' = contents.organizations
    /\ targets' = contents.targets
    /\ metadata' = contents.metadata

\* deferred tx.Rollback(): the call returns its error
Rollback ==
    /\ run' = [run EXCEPT !.err = TRUE]
    /\ pc' = "returned"
    /\ WriteFile(TxView(run.before, run.pending))

CacheTick ==
    /\ pc = "ready"
    /\ now < MaxTime
    /\ now' = now + 1
    /\ UNCHANGED <<cacheVars, apiOrgs, apiOwner, tokenValid, nRuns, nApiChanges, pc, run>>

\* the last_update row is overwritten from outside with a text that is no timestamp
CorruptTimestamp ==
    /\ pc = "ready"
    /\ \E m \in metadata : m.key = LastUpdateKey /\ m.value # NotATimestamp
    /\ metadata' = InsertMetadata(metadata, LastUpdateKey, NotATimestamp)
    /\ UNCHANGED <<organizations, targets, worldVars, nRuns, pc, run>>

\* StoreOrganizations, lines 1316-1321: Beginx
CallStoreOrganizations ==
    /\ pc = "ready"
    /\ \E orgs \in StoredOrgLists, beginFails \in BOOLEAN :
         LET call == [NoCall EXCEPT !.op = "StoreOrganizations", !.before = CacheContents,
                                    !.pending = CacheContents, !.table = "organizations",
                                    !.list = orgs,
                                    !.rows = [i \in 1..Len(orgs) |-> OrgRow(orgs[i])],
                                    !.key = LastUpdateKey]
         IN  IF beginFails
             THEN /\ run' = [call EXCEPT !.err = TRUE]
                  /\ pc' = "returned"
             ELSE /\ run' = call
                  /\ pc' = "tx_rows"
    /\ UNCHANGED <<cacheVars, worldVars, nRuns>>

\* StoreTargets, lines 1355-1363: the early return, Beginx
CallStoreTargets ==
    /\ pc = "ready"
    /\ \E orgID \in OrgIds, ts \in StoredTargetLists :
         LET call == [NoCall EXCEPT !.op = "StoreTargets", !.before = CacheContents,
                                    !.pending = CacheContents, !.table = "targets",
                                    !.orgID = orgID, !.list = ts,
                                    !.rows = [i \in 1..Len(ts) |-> TargetRow(orgID, ts[i])],
                                    !.key = TargetsUpdateKey(orgID)]
         IN  /\ run' = call
             /\ pc' = IF NothingToStore(ts) THEN "returned" ELSE "tx_rows"
    /\ UNCHANGED <<cacheVars, worldVars, nRuns>>

\* one tx.Exec of the insert loop (lines 1324-1329, 1366-1371)
TxInsert ==
    /\ pc = "tx_rows"
    /\ run.i <= Len(run.rows)
    /\ \E execFails \in BOOLEAN :
         LET row == run.rows[run.i]
             orphan == /\ run.table = "targets"
                       /\ ~\E o \in run.pending.organizations : o.id = row.org_id
             pending == IF run.table = "targets"
                        THEN [run.pending EXCEPT !.targets = InsertOrReplace(@, row)]
                        ELSE [run.pending EXCEPT !.organizations = InsertOrReplace(@, row)]
         IN  IF execFails \/ (ForeignKeysEnforced /\ orphan)
             THEN Rollback
             ELSE /\ run' = [run EXCEPT !.pending = pending, !.i = @ + 1]
                  /\ pc' = "tx_rows"
                  /\ WriteFile(TxView(run.before, pending))
    /\ UNCHANGED <<worldVars, nRuns>>

\* the tx.Exec that writes the timestamp (lines 1331-1334, 1374-1377)
TxWriteTimestamp ==
    /\ pc = "tx_rows"
    /\ run.i > Len(run.rows)
    /\ \E execFails \in BOOLEAN :
         LET pending == [run.pending EXCEPT
                            !.metadata = InsertMetadata(@, run.key, FormatRFC3339(now))]
         IN  IF execFails
             THEN Rollback
             ELSE /\ run' = [run EXCEPT !.pending = pending]
                  /\ pc' = "tx_commit"
                  /\ WriteFile(TxView(run.before, pending))
    /\ UNCHANGED <<worldVars, nRuns>>

\* tx.Commit (lines 1336-1339, 1379-1382)
TxCommit ==
    /\ pc = "tx_commit"
    /\ \E commitFails \in BOOLEAN :
         IF commitFails
         THEN Rollback
         ELSE /\ run' = run
              /\ pc' = "returned"
              /\ WriteFile(run.pending)
    /\ UNCHANGED <<worldVars, nRuns>>

\* ResetCache, lines 1520-1537: three Exec on the connection, no transaction
CallResetCache ==
    /\ pc = "ready"
    /\ run' = [NoCall EXCEPT !.op = "ResetCache", !.before = CacheContents]
    /\ pc' = "delete_targets"
    /\ UNCHANGED <<cacheVars, worldVars, nRuns>>

DeleteTargets ==
    /\ pc = "delete_targets"
    /\ \E execFails \in BOOLEAN :
         IF execFails
         THEN /\ run' = [run EXCEPT !.err = TRUE]
              /\ pc' = "returned"
              /\ UNCHANGED targets
         ELSE /\ targets' = {}
              /\ pc' = "delete_organizations"
              /\ UNCHANGED run
    /\ UNCHANGED <<organizations, metadata, worldVars, nRuns>>

DeleteOrganizations ==
    /\ pc = "delete_organizations"
    /\ \E execFails \in BOOLEAN :
         IF execFails
         THEN /\ run' = [run EXCEPT !.err = TRUE]
              /\ pc' = "returned"
              /\ UNCHANGED organizations
         ELSE /\ organizations' = {}
              /\ pc' = "delete_metadata"
              /\ UNCHANGED run
    /\ UNCHANGED <<targets, metadata, worldVars, nRuns>>

DeleteMetadata ==
    /\ pc = "delete_metadata"
    /\ \E execFails \in BOOLEAN :
         IF execFails
         THEN /\ run' = [run EXCEPT !.err = TRUE]
              /\ UNCHANGED metadata
         ELSE /\ metadata' = {}
              /\ UNCHANGED run
    /\ pc' = "returned"
    /\ UNCHANGED <<organizations, targets, worldVars, nRuns>>

\* getOrganizations (part_005 lines 231-266) on the file as it is, with a usable token
CallerGetOrganizations ==
    /\ pc = "ready"
    /\ \E ttl \in CheckedTTLs :
         \E out \in GetOrganizationsOutcomes(organizations, metadata, ttl, now, TRUE, apiOrgs) :
            /\ run' = [NoCall EXCEPT !.op = "getOrganizations", !.before = CacheContents,
                                     !.ttl = ttl, !.ok = out.ok, !.list = out.orgs,
                                     !.expired = IsExpired(metadata, ttl, now).expired,
                                     !.err = IsExpired(metadata, ttl, now).err,
                                     !.apiRequest = out.apiRequest]
            /\ organizations' = out.organizations
            /\ metadata' = out.metadata
    /\ pc' = "returned"
    /\ UNCHANGED <<targets, worldVars, nRuns>>

\* GetTargetsByURL, lines 1443-1484: one Query, which may fail
CallGetTargetsByURL ==
    /\ pc = "ready"
    /\ \E url \in LookupURLs, queryFails \in BOOLEAN :
         LET call == [NoCall EXCEPT !.op = "GetTargetsByURL", !.before = CacheContents,
                                    !.url = url]
         IN  run' = IF queryFails
                    THEN [call EXCEPT !.err = TRUE]
                    ELSE [call EXCEPT
                            !.selected = SelectTargetsByURL(targets, organizations,
                                                            HttpVariant(url), HttpsVariant(url)),
                            !.found = GetTargetsByURL(targets, organizations, url)]
    /\ pc' = "returned"
    /\ UNCHANGED <<cacheVars, worldVars, nRuns>>

\* the call has returned to its caller
Return ==
    /\ pc = "returned"
    /\ pc' = "ready"
    /\ run' = NoCall
    /\ UNCHANGED <<cacheVars, worldVars, nRuns>>

CacheNext ==
    \/ CacheTick
    \/ CorruptTimestamp
    \/ CallStoreOrganizations
    \/ CallStoreTargets
    \/ TxInsert
    \/ TxWriteTimestamp
    \/ TxCommit
    \/ CallResetCache
    \/ DeleteTargets
    \/ DeleteOrganizations
    \/ DeleteMetadata
    \/ CallerGetOrganizations
    \/ CallGetTargetsByURL
    \/ Return

CacheSpec == CacheInit /\ [][CacheNext]_vars

----------------------------------------------------------------------------
(* Properties of one invocation, read off the state in which run has returned *)

Done == pc = "done"
Read(name) == name \in run.read

\* no --org was given
NoOrgFlag == Read("org") /\ run.orgOption = ""

\* at least one argument is passed through to the tool (an input is drawn where run
\* first reads it: a run that ended before reading the arguments stands for the
\* invocations with every argument list, the non-empty ones among them)
HasArgs == Read("args") => Len(run.args) > 0

\* the ids of the organizations of a list that opt names by id, name or slug
MatchingIDs(orgs, opt) ==
    {orgs[i].ID : i \in {j \in 1..Len(orgs) :
        orgs[j].ID = opt \/ orgs[j].Name = opt \/ orgs[j].Slug = opt}}

\* the tool was started with SNYK_CFG_ORG set to one of ids, appended to its environment
LaunchedWithOneOf(ids) ==
    /\ run.launched
    /\ \E id \in ids : run.childEnv = Append(run.environ, <<SNYK_CFG_ORG, id>>)

\* the tool was started with the environment of the wrapper, nothing added
LaunchedUnscoped == run.launched /\ run.childEnv = run.environ

\* C1: whenever the wrapped tool was launched and ended with code c, the wrapper's
\* process ends with the same code c
C1_SameExitCode == (Done /\ run.launched) => run.exitCode = run.childCode

\* --org names, by id, name or slug, an organization of the list getOrganizations gave
ExplicitOrgListed ==
    /\ Done /\ Read("org") /\ run.orgOption # "" /\ run.listed
    /\ MatchingIDs(run.organizations, run.orgOption) # {}

\* the tool runs under a listed organization --org names, and the run detected no
\* remote, looked up no URL, no targets and no default organization
ExplicitOrgUsed ==
    /\ LaunchedWithOneOf(MatchingIDs(run.organizations, run.orgOption))
    /\ run.gitDetections = 0 /\ ~Read("git-url") /\ ~Read("remote")
    /\ run.urlLookups = 0 /\ run.targetLookups = 0
    /\ run.defaultLookups = 0 /\ ~Read("default_org")

\* C2, as stated: when --org names a listed organization, the tool is launched with
\* that organization's id and no Git detection, target lookup or default lookup is made
C2_ExplicitOrgWins == ExplicitOrgListed => ExplicitOrgUsed

\* C2, amended: the same, for an invocation that passes at least one argument through
C2_ExplicitOrgWinsGivenArgs == (ExplicitOrgListed /\ HasArgs) => ExplicitOrgUsed

C2_Witness ==
    /\ ExplicitOrgListed /\ run.args = <<"test">> /\ run.orgOption = "s2"
    /\ run.launched /\ EnvLookup(run.childEnv, SNYK_CFG_ORG) = Success("o2")

\* C3: when --org names no organization of the list, the run fails with the
\* organization-not-found error and a non-zero exit code, and the tool is never launched
C3_OrgNotFound ==
    (/\ Done /\ Read("org") /\ run.orgOption # "" /\ run.listed
     /\ MatchingIDs(run.organizations, run.orgOption) = {})
    => (run.err = "organization not found" /\ run.exitCode # 0 /\ ~run.launched)

C3_Witness ==
    /\ Done /\ run.orgOption = "zz" /\ run.listed /\ Len(run.organizations) = 2
    /\ run.err = "organization not found" /\ run.exitCode = 1 /\ ~run.launched

\* two URLs that differ at most in their scheme and in letter case
StripScheme(url) ==
    IF HasPrefix(Lower(url), S_https) THEN SubSeq(url, Len(S_https) + 1, Len(url))
    ELSE IF HasPrefix(Lower(url), S_http) THEN SubSeq(url, Len(S_http) + 1, Len(url))
    ELSE url
SameRepo(u, v) == Lower(StripScheme(u)) = Lower(StripScheme(v))

\* the organizations of the server's list that own, on the server, a target with a URL
ServerOwners(url) ==
    {apiOrgs[i].ID : i \in {j \in 1..Len(apiOrgs) :
        \E k \in 1..Len(ApiTargetsOf(apiOwner, apiOrgs[j].ID)) :
            ApiTargetsOf(apiOwner, apiOrgs[j].ID)[k].URL = url}}

\* the organizations that owned a target with a URL in the cache the run looked up,
\* and those among the cached organizations that owned one equal up to scheme and case
CachedOwners(url) == {r.org_id : r \in {x \in run.cachedAtLookup.targets : x.url = url}}
CachedOwnersSameRepo(url) ==
    {r.org_id : r \in {x \in run.cachedAtLookup.targets :
        /\ SameRepo(x.url, url)
        /\ \E o \in run.cachedAtLookup.organizations : o.id = x.org_id}}

\* the scenario of C4: no --org, no default organization, detection enabled, a usable
\* token, and the remote git@h:o/r.git
SSHRemoteRun ==
    /\ Done /\ NoOrgFlag /\ tokenValid
    /\ Read("default_org") => run.DefaultOrg = ""
    /\ Read("remote") /\ run.remote = Success(URL_ssh)

LookupMissed == Done /\ NoOrgFlag /\ run.urlLookups > 0 /\ run.by \notin {"cache", "api"}

\* the configured default organization names an organization of the list obtained
DefaultListed ==
    /\ Read("default_org") /\ run.DefaultOrg # "" /\ run.listed
    /\ MatchingIDs(run.organizations, run.DefaultOrg) # {}

\* C5: when neither the cache lookup nor the traversal finds the candidate URL, the
\* run does not fail: the tool is launched with the id of the configured default
\* organization when it matches an organization, and with no organization otherwise
\* (stated for the invocations that pass at least one argument through)
C5_MissFallsBack ==
    (LookupMissed /\ HasArgs) =>
        IF DefaultListed
        THEN LaunchedWithOneOf(MatchingIDs(run.organizations, run.DefaultOrg))
        ELSE LaunchedUnscoped

\* no Git URL is available: detection failed, or it is disabled and --git-url is absent
DetectionFailed == Done /\ NoOrgFlag /\ Read("remote") /\ ~GetGitRemoteURL(run.remote).ok
DetectionOff ==
    Done /\ NoOrgFlag /\ Read("auto-detect-git") /\ run.gitURLFlag = <<>> /\ ~run.autoDetectGit

\* C6: with no --org and no Git URL available, a configured default organization that
\* exists in the organization list is the one the tool is launched with (stated for
\* the invocations that pass at least one argument through and whose requests to the
\* server all succeed; the default is looked for in the server's list and in the list
\* the run obtained)
C6_DefaultWhenNoGitURL ==
    (/\ DetectionFailed \/ DetectionOff
     /\ HasArgs /\ run.apiFailures = 0
     /\ Read("default_org") /\ MatchingIDs(apiOrgs, run.DefaultOrg) # {}
     /\ run.listed => MatchingIDs(run.organizations, run.DefaultOrg) # {})
    => LaunchedWithOneOf(MatchingIDs(apiOrgs, run.DefaultOrg)
                         \cup MatchingIDs(run.organizations, run.DefaultOrg))

C8_ChildEnvironment ==
    (Done /\ run.launched) =>
        /\ run.orgID # "" => /\ run.childEnv = Append(run.environ, <<SNYK_CFG_ORG, run.orgID>>)
                             /\ EnvLookup(run.childEnv, SNYK_CFG_ORG) = Success(run.orgID)
        /\ run.orgID = "" => run.childEnv = run.environ
        /\ \A i \in 1..Len(run.environ) : run.childEnv[i] = run.environ[i]

C8_Witness ==
    /\ Done /\ run.launched /\ run.orgID = "" /\ run.by = "none"
    /\ EnvLookup(run.environ, SNYK_CFG_ORG) = Success("inherited")
    /\ EnvLookup(run.childEnv, SNYK_CFG_ORG) = Success("inherited")

\* C33: a step in which a list call to the server fails hands no list to its caller
\* (no organization list is taken over, no organization is found by its targets)
\* and leaves the organization rows, the target rows and every timestamp of the
\* cache as they were
C33_FailedFetchLeavesCache ==
    [][run'.apiFailures > run.apiFailures
       => /\ organizations' = organizations
          /\ targets' = targets
          /\ metadata' = metadata
          /\ run'.organizations = run.organizations
          /\ run'.orgID = run.orgID
          /\ pc' # "found"]_vars

\* a run in which a list call failed over a cache that held organizations and an
\* expired timestamp, and still holds them
C33_Witness ==
    /\ Done /\ run.apiFailures > 0
    /\ organizations # {}
    /\ IsExpired(metadata, run.CacheTTL, now).expired
    /\ ~IsExpired(metadata, run.CacheTTL, now).err
    /\ metadata # {}

\* the server holds no target for the organization / has never held one
WithoutTargets(orgID) == ApiTargetsOf(apiOwner, orgID) = <<>>
AlwaysWithoutTargets(orgID) == nApiChanges = 0 /\ WithoutTargets(orgID)

\* C38: for an organization whose target list on the server is empty no targets
\* timestamp is ever recorded, so that its targets are expired for every ttl, and
\* every step of the live traversal that comes to it sends a new request for its
\* targets, however recently they were fetched
C38_EmptyOrgAlwaysRefetched ==
    [][/\ \A o \in OrgIds :
            WithoutTargets(o) =>
                /\ \A m \in metadata' : m.key # TargetsUpdateKey(o)
                /\ \A ttl \in {0, TicksPerSec, 86400 * TicksPerSec} :
                      IsTargetsCacheExpired(metadata', o, ttl, now').expired
       /\ (/\ pc = "find_loop" /\ run.idx <= Len(run.organizations)
           /\ WithoutTargets(run.organizations[run.idx].ID))
          => run'.apiRequests = run.apiRequests + 1]_vars

\* C38 for an organization whose target list has been empty all along: no targets
\* timestamp is ever recorded for it, its targets are expired for every ttl, and
\* every step of the live traversal that comes to it sends a new request
C38_NeverFilledOrgAlwaysRefetched ==
    [][/\ \A o \in OrgIds :
            AlwaysWithoutTargets(o) =>
                /\ \A m \in metadata' : m.key # TargetsUpdateKey(o)
                /\ \A ttl \in {0, TicksPerSec, 86400 * TicksPerSec} :
                      IsTargetsCacheExpired(metadata', o, ttl, now').expired
       /\ (/\ pc = "find_loop" /\ run.idx <= Len(run.organizations)
           /\ AlwaysWithoutTargets(run.organizations[run.idx].ID))
          => run'.apiRequests = run.apiRequests + 1]_vars

\* a second run at the instant of the first whose traversal requested the targets
\* of both organizations again, neither of which has any, the organization list
\* coming from the cache
C38_Witness ==
    /\ Done /\ nRuns = 2 /\ now = 0
    /\ \A o \in OrgIds : AlwaysWithoutTargets(o)
    /\ organizations # {} /\ ~IsExpired(metadata, run.CacheTTL, now).expired
    /\ run.targetLookups = 2 /\ run.apiRequests = 2 /\ run.apiFailures = 0

\* Execute was called with no argument: run reads the arguments before the call
\* only where no organization was looked for, and ends there when there is none
ExecuteCalledWithoutArgs ==
    Done /\ run.by # "" /\ Read("args") /\ Len(run.args) = 0

\* C32: SnykExecutor.Execute called with an empty argument list returns the error
\* "no arguments provided" and does not launch the wrapped tool, whatever
\* organization id the executor holds
C32_NoArgumentsNoLaunch ==
    ExecuteCalledWithoutArgs
    => (run.err = "no arguments provided" /\ ~run.launched /\ run.childArgs = <<>>)

\* Execute was called without arguments by an executor that holds an organization id
C32_Witness ==
    /\ ExecuteCalledWithoutArgs
    /\ run.orgID # "" /\ run.by = "org"
    /\ run.err = "no arguments provided"

\* C9: a run that makes no request to the server never reads the token store
C9_TokenOnlyForRequests == (Done /\ run.launched /\ run.apiRequests = 0) => run.tokenReads = 0

\* the TTL the run is to use: that of --cache-ttl when supplied, else the cache_ttl of
\* the configuration
ChosenTTL ==
    IF run.cacheTTLFlag.ok THEN ParseDuration(run.cacheTTLFlag.val)
    ELSE ParseDuration(run.cfgFileTTL)

\* C10: every expiry test of the run uses the TTL of --cache-ttl when the flag was
\* supplied, and the cache_ttl of the configuration otherwise
C10_TTLFromFlagElseConfig ==
    (Done /\ ChosenTTL.ok) => \A ttl \in run.ttlChecks : ttl = ChosenTTL.val

\* C11: a cached target resolves the Git URL only while the target data of the
\* organization that owns it is within the TTL of the run: the run never takes the
\* organization of a cached row whose freshness timestamp is absent or older than TTL
C11_CachedTargetOnlyWhileFresh ==
    (Done /\ run.by = "cache")
    => ~IsTargetsCacheExpired(run.cachedAtLookup.metadata, run.orgID, run.CacheTTL, now).expired

\* C12: when --list-orgs is supplied, whatever the other flags and arguments, the run
\* prints the organization list and exits 0 and the tool is never launched (stated for
\* the runs that obtain the organization list, pass at least one argument through
\* and whose --org, if given, names a listed organization)
C12_ListOrgsOnly ==
    (/\ Done /\ Read("list-orgs") /\ run.listOrgs /\ run.listed /\ HasArgs
     /\ run.orgOption # "" => MatchingIDs(run.organizations, run.orgOption) # {})
    => (run.output = "organizations" /\ run.exitCode = 0 /\ ~run.launched)

\* C20: a cache storage error raised during a run aborts it: the run ends with a
\* non-zero exit code and the tool is not launched (stated for the invocations that
\* pass at least one argument through)
C20_CacheErrorFatal ==
    (Done /\ run.cacheErrors > 0 /\ HasArgs) => (run.exitCode # 0 /\ ~run.launched)

\* C21: a transport or API error raised while the run resolves by Git URL or
\* resolves the configured default organization never aborts it: the tool is still
\* launched (stated for the invocations that pass at least one argument through)
C21_ApiErrorNotFatal ==
    (/\ Done /\ NoOrgFlag /\ HasArgs
     /\ run.apiFailures > 0
     /\ run.urlLookups > 0 \/ run.defaultLookups > 0)
    => (run.launched /\ run.err = "")

----------------------------------------------------------------------------
(* Properties of the cache methods, stated of CacheSpec *)

Returned(op) == pc = "returned" /\ run.op = op
Storing == run.op \in {"StoreOrganizations", "StoreTargets"}

\* the file after the whole batch of the call in progress and its timestamp
WholeBatch ==
    IF run.op = "StoreOrganizations"
    THEN LET st == StoreOrganizations(run.before.organizations, run.before.metadata,
                                      run.list, now)
         IN  [run.before EXCEPT !.organizations = st.organizations,
                                !.metadata = st.metadata]
    ELSE LET st == StoreTargets(run.before.targets, run.before.metadata, run.orgID,
                                run.list, now)
         IN  [run.before EXCEPT !.targets = st.targets, !.metadata = st.metadata]

TimestampRows(meta, key) == {m \in meta : m.key = key}

\* C13: ResetCache is atomic: while it runs and after it has returned, with or
\* without an error, the file holds either all it held before the call or nothing,
\* never a state in which only some of the three tables are cleared
C13_ResetCacheAtomic ==
    run.op = "ResetCache" => (CacheContents = run.before \/ CacheContents = EmptyCache)

\* C14: StoreOrganizations and StoreTargets are atomic: while the call runs the file
\* holds what it held before, after a failed call it still does, and after a
\* successful call it holds the whole batch together with the new timestamp
C14_StoreAtomic ==
    Storing =>
        /\ CacheContents \in {run.before, WholeBatch}
        /\ (pc # "returned" \/ run.err) => CacheContents = run.before
        /\ (pc = "returned" /\ ~run.err) => CacheContents = WholeBatch

\* a StoreTargets call that failed after its first row was inserted, and a file that
\* holds nothing of the batch
C14_Witness ==
    /\ Returned("StoreTargets") /\ run.err /\ run.i > 1
    /\ run.pending # run.before
    /\ CacheContents = run.before
    /\ CacheContents # WholeBatch

\* C15: the staleness check of the organization list reports expired, without
\* failing, exactly when no timestamp is recorded, the timestamp cannot be parsed, or
\* now - timestamp > ttl, and in each of these cases getOrganizations fetches the
\* list from the API
C15_StaleListRefetched ==
    Returned("getOrganizations") =>
        LET rows == TimestampRows(run.before.metadata, LastUpdateKey)
            stamp == (CHOOSE m \in rows : TRUE).value
            stale == \/ rows = {}
                     \/ stamp = NotATimestamp
                     \/ now - ParseRFC3339(stamp).val > run.ttl
        IN  /\ (run.expired /\ ~run.err) <=> stale
            /\ stale => run.apiRequest

\* C16: immediately after a successful ResetCache the organization list is expired
\* for every ttl, and immediately after a successful StoreOrganizations it is not
\* expired for every ttl > 0, a ttl shorter than one second included
C16_ExpiryAfterResetAndStore ==
    /\ (Returned("ResetCache") /\ ~run.err)
       => \A ttl \in CheckedTTLs : IsExpired(metadata, ttl, now).expired
    /\ (Returned("StoreOrganizations") /\ ~run.err)
       => \A ttl \in CheckedTTLs : ~IsExpired(metadata, ttl, now).expired

\* C17: StoreTargets for one organization never changes the targets timestamp of
\* another organization, nor what IsTargetsCacheExpired reports for it
C17_OtherOrgsFreshnessKept ==
    run.op = "StoreTargets" =>
        \A o2 \in OrgIds \ {run.orgID} :
            /\ TimestampRows(metadata, TargetsUpdateKey(o2))
               = TimestampRows(run.before.metadata, TargetsUpdateKey(o2))
            /\ \A ttl \in CheckedTTLs :
                  IsTargetsCacheExpired(metadata, o2, ttl, now)
                  = IsTargetsCacheExpired(run.before.metadata, o2, ttl, now)

\* a successful StoreTargets that wrote its own timestamp while another organization
\* has none
C17_Witness ==
    /\ Returned("StoreTargets") /\ ~run.err /\ Len(run.list) > 0
    /\ metadata # run.before.metadata
    /\ \E o2 \in OrgIds \ {run.orgID} :
          TimestampRows(metadata, TargetsUpdateKey(o2)) = {}

\* C18: StoreTargets with an empty list is a no-op in every cache state: it removes
\* no row, writes or bumps no timestamp, and does not fail
C18_EmptyStoreTargetsNoOp ==
    (Returned("StoreTargets") /\ Len(run.list) = 0)
    => (CacheContents = run.before /\ ~run.err)

\* an empty StoreTargets for an organization that has cached targets and an older
\* timestamp
C18_Witness ==
    /\ Returned("StoreTargets") /\ Len(run.list) = 0
    /\ \E t \in targets : t.org_id = run.orgID
    /\ \E m \in metadata : m.key = TargetsUpdateKey(run.orgID)
                           /\ m.value # FormatRFC3339(now)

\* C31: after a successful StoreOrganizations(L), whatever GetOrganizations returns
\* holds, for every id occurring in L, exactly one organization with that id, and it
\* is equal in id, name and slug to the last entry of L with that id
C31_StoreOrganizationsRoundTrip ==
    (Returned("StoreOrganizations") /\ ~run.err) =>
        \A got \in GetOrganizations(organizations) :
            \A i \in 1..Len(run.list) :
                LET same == {j \in 1..Len(run.list) : run.list[j].ID = run.list[i].ID}
                    last == CHOOSE j \in same : \A k \in same : k <= j
                    at == {n \in 1..Len(got) : got[n].ID = run.list[i].ID}
                IN  /\ Cardinality(at) = 1
                    /\ \A n \in at : got[n] = run.list[last]

\* a successful StoreOrganizations of a list that names one id twice, over a file
\* that already held a row with that id and other values
C31_Witness ==
    /\ Returned("StoreOrganizations") /\ ~run.err
    /\ \E i, j \in 1..Len(run.list) :
          i < j /\ run.list[i].ID = run.list[j].ID /\ run.list[i] # run.list[j]
    /\ \E r \in run.before.organizations :
          r.id = run.list[1].ID /\ RowOrg(r) # run.list[Len(run.list)]

\* the organization timestamp the file held before the call is within ttl
WithinTTL ==
    \E m \in TimestampRows(run.before.metadata, LastUpdateKey) :
        m.value # NotATimestamp /\ now - m.value * TicksPerSec <= run.ttl

\* the organization timestamp the file held before the call is absent or too old
TimestampAbsentOrExpired ==
    \A m \in TimestampRows(run.before.metadata, LastUpdateKey) :
        m.value # NotATimestamp /\ now - m.value * TicksPerSec > run.ttl

C35_CacheMirrorsLastFetch ==
    (Returned("StoreOrganizations") /\ ~run.err) =>
        \A got \in GetOrganizations(organizations) :
            \A n \in 1..Len(got) : \E i \in 1..Len(run.list) : got[n].ID = run.list[i].ID

\* C36: when the most recent fetch of the targets of an organization o held no
\* target with URL u, a lookup of the cache by u does not resolve to o: right after
\* StoreTargets(o, L) has returned without error, L holding no target whose URL is u
\* in either scheme and any letter case, GetTargetsByURL(u) returns no match in o
C36_NoMatchAfterTargetGone ==
    (Returned("StoreTargets") /\ ~run.err) =>
        \A u \in LookupURLs :
            (\A i \in 1..Len(run.list) :
                Lower(run.list[i].URL) \notin {Lower(HttpVariant(u)), Lower(HttpsVariant(u))})
            => \A m \in GetTargetsByURL(targets, organizations, u) : m.OrgID # run.orgID

\* C37: StoreTargets(o1, L) leaves what GetTargetsByOrgID(o2) returns unchanged for
\* every organization o2 other than o1 and every list L, a list that holds a target
\* id cached under o2 included
C37_OtherOrgsTargetsKept ==
    (Returned("StoreTargets") /\ ~run.err) =>
        \A o2 \in OrgIds \ {run.orgID} :
            GetTargetsByOrgID(targets, o2) = GetTargetsByOrgID(run.before.targets, o2)

\* C19: StoreTargets with a non-empty list for an organization that is not stored
\* in the cache is rejected and writes no target row and no timestamp
C19_OrphanTargetsRejected ==
    (/\ Returned("StoreTargets") /\ Len(run.list) > 0
     /\ ~\E o \in run.before.organizations : o.id = run.orgID)
    => (run.err /\ targets = run.before.targets /\ metadata = run.before.metadata)

\* two lookup URLs that differ only in the scheme, http against https
DifferOnlyInScheme(u1, u2) ==
    \E x \in {TrimPrefix(u1, S_http), TrimPrefix(u1, S_https)} :
        {u1, u2} = {S_http \o x, S_https \o x}

\* two lookup URLs that differ only in letter case
DifferOnlyInCase(u1, u2) == u1 # u2 /\ Lower(u1) = Lower(u2)

\* C22: two lookup URLs that differ only in scheme, or only in letter case anywhere
\* in the string, get the same matches from GetTargetsByURL on every cache content
C22_LookupIgnoresSchemeAndCase ==
    (Returned("GetTargetsByURL") /\ ~run.err) =>
        \A u2 \in LookupURLs :
            (DifferOnlyInScheme(run.url, u2) \/ DifferOnlyInCase(run.url, u2))
            => GetTargetsByURL(targets, organizations, u2) = run.found

\* C24: GetTargetsByURL(u) returns one match per cached target whose URL is u, in
\* whatever organization, each with the id of its own organization
C24_OneMatchPerTarget ==
    (Returned("GetTargetsByURL") /\ ~run.err) =>
        \A t \in targets :
            t.url = run.url =>
                /\ Cardinality({p \in run.selected : p[1] = t}) = 1
                /\ \E m \in run.found : m.OrgID = t.org_id /\ m.TargetURL = t.url

----------------------------------------------------------------------------
(* The functions of internal/api and internal/cmd on their own: each is called *)
(* with arguments drawn from the sets below and run records the call, its      *)
(* arguments and what it returned.                                             *)

NoLibCall == [op |-> "", arg |-> [none |-> TRUE], res |-> [none |-> TRUE]]

LibInit ==
    /\ now = 0
    /\ organizations = {}
    /\ targets = {}
    /\ metadata = {}
    /\ apiOrgs = <<O1, O2>>
    /\ apiOwner = [t1 |-> "o1", t2 |-> "o2"]
    /\ tokenValid = TRUE
    /\ nRuns = 0
    /\ nApiChanges = 0
    /\ pc = "ready"
    /\ run = NoLibCall

\* a call of op with arguments arg that returned res
Called(op, arg, res) == [op |-> op, arg |-> arg, res |-> res]

LibReturn ==
    /\ pc = "returned"
    /\ run' = NoLibCall
    /\ pc' = "ready"
    /\ UNCHANGED <<cacheVars, worldVars, nRuns>>

\* what the server holds: which organization owns each target
ApiOwners == [{"t1", "t2"} -> OrgIds \cup {NoOwner}]

\* FindOrgWithTargetURL, the loop over the organizations from the i-th on; the
\* request for the targets of the organizations in failing returns an error
RECURSIVE FindOrgFrom(_, _, _, _, _)
FindOrgFrom(orgs, i, owner, failing, targetURL) ==
    IF i > Len(orgs) THEN Failure
    ELSE LET org == orgs[i]
             ts == ApiTargetsOf(owner, org.ID)
             hits == {j \in 1..Len(ts) : \/ ts[j].URL = HttpVariant(targetURL)
                                         \/ ts[j].URL = HttpsVariant(targetURL)}
         IN  IF org.ID \in failing \/ hits = {}
             THEN FindOrgFrom(orgs, i + 1, owner, failing, targetURL)
             ELSE LET j == CHOOSE k \in hits : \A l \in hits : k <= l
                  IN  Success([OrgID |-> org.ID, OrgName |-> org.Name,
                               TargetURL |-> ts[j].URL, TargetName |-> ts[j].DisplayName])

\* SnykClient.FindOrgWithTargetURL
FindOrgWithTargetURL(orgsOK, orgs, owner, failing, targetURL) ==
    IF ~orgsOK THEN Failure ELSE FindOrgFrom(orgs, 1, owner, failing, targetURL)

CallFindOrgWithTargetURL ==
    /\ pc = "ready"
    /\ \E orgsOK \in BOOLEAN, orgs \in ApiOrgLists, owner \in ApiOwners,
          failing \in SUBSET OrgIds, targetURL \in LookupURLs :
         run' = Called("FindOrgWithTargetURL",
                       [orgsOK |-> orgsOK, orgs |-> orgs, owner |-> owner,
                        failing |-> failing, url |-> targetURL],
                       FindOrgWithTargetURL(orgsOK, orgs, owner, failing, targetURL))
    /\ pc' = "returned"
    /\ UNCHANGED <<cacheVars, worldVars, nRuns>>

\* findOrgByGitURL, lines 313-320: the scan of the targets of one organization
ScanTargets ==
    /\ pc = "ready"
    /\ \E owner \in ApiOwners, orgID \in OrgIds, gitURL \in LookupURLs :
         run' = Called("scanTargets",
                       [ts |-> ApiTargetsOf(owner, orgID), url |-> gitURL],
                       [matched |-> TargetsMatch(ApiTargetsOf(owner, orgID), gitURL)])
    /\ pc' = "returned"
    /\ UNCHANGED <<cacheVars, worldVars, nRuns>>

\* the remote URLs handed to NormalizeRepoURL: the repository h/o/r written as SSH
\* shorthand for the users git and a, with git://, http://, https:// and without a
\* scheme, each with or without .git and with or without a trailing slash
RepoStems ==
    {S_gitat \o <<"h",":","o","/","r">>, <<"a","@","h",":","o","/","r">>,
     S_gitproto \o S_path, S_http \o S_path, S_https \o S_path, S_path}
RepoForms ==
    {stem \o suffix \o slash :
        stem \in RepoStems, suffix \in {<<>>, S_dotgit}, slash \in {<<>>, S_slash}}
NormalizeInputs == RepoForms \cup {<<>>, URL_bad, URL_upperScheme, S_https \o <<"h">>}

CallNormalizeRepoURL ==
    /\ pc = "ready"
    /\ \E url \in NormalizeInputs :
         run' = Called("NormalizeRepoURL", [url |-> url], NormalizeRepoURL(url))
    /\ pc' = "returned"
    /\ UNCHANGED <<cacheVars, worldVars, nRuns>>

\* run, lines 136-162: the URL handed to findOrgByGitURL, from --git-url or else,
\* with auto-detection, from the remote, and the number of queries of the remote
GitURLOfRun(gitURL, autoDetectGit, remote) ==
    IF gitURL = <<>> /\ autoDetectGit
    THEN [url |-> GetGitRemoteURL(remote), detections |-> 1]
    ELSE [url |-> Success(gitURL), detections |-> 0]

\* run in a repository whose origin is u, with --git-url=u or with auto-detection
CallGitURLOfRun ==
    /\ pc = "ready"
    /\ \E u \in RepoForms, explicit \in BOOLEAN :
         run' = Called("gitURLOfRun", [u |-> u, explicit |-> explicit],
                       GitURLOfRun(IF explicit THEN u ELSE <<>>, TRUE, Success(u)))
    /\ pc' = "returned"
    /\ UNCHANGED <<cacheVars, worldVars, nRuns>>

\* a variant of RefreshHorizon of one minute
RefreshHorizonOneMinute == 60 * TicksPerSec

\* GetSnykAPIToken, line 317: 5 * time.Minute, in ticks
RefreshHorizon == 5 * 60 * TicksPerSec

\* a variant of CanRefresh that sends an empty refresh token to the refresher as well
CanRefreshAlways(tokenStorage) == TRUE

\* GetSnykAPIToken, line 318: tokenStorage.RefreshToken == "" is an error
CanRefresh(tokenStorage) == tokenStorage.RefreshToken # ""

\* GetSnykAPIToken. stored is what provider.GetToken returns, t is the time of the
\* expiry test, refresh what refresher.RefreshToken returns elapsed ticks later,
\* and saveOK whether provider.SaveToken succeeds. The result has, next to the token
\* and the error flag, the refresh tokens handed to the refresher and the records
\* handed to SaveToken, in call order
GetSnykAPIToken(stored, t, refresh, elapsed, saveOK) ==
    LET failed == [ok |-> FALSE, token |-> "", refreshCalls |-> <<>>, saveCalls |-> <<>>]
    IN  IF ~stored.ok THEN failed
        ELSE IF stored.val.Expiry < t + RefreshHorizon
        THEN IF ~CanRefresh(stored.val) THEN failed
             ELSE LET called == [failed EXCEPT !.refreshCalls = <<stored.val.RefreshToken>>]
                      tokenStorage ==
                          [AccessToken |-> refresh.val.AccessToken,
                           TokenType |-> refresh.val.TokenType,
                           RefreshToken |-> refresh.val.RefreshToken,
                           Expiry |-> t + elapsed + refresh.val.ExpiresIn * TicksPerSec]
                  IN  IF ~refresh.ok THEN called
                      ELSE IF ~saveOK \/ tokenStorage.AccessToken = ""
                      THEN [called EXCEPT !.saveCalls = <<tokenStorage>>]
                      ELSE [called EXCEPT !.saveCalls = <<tokenStorage>>, !.ok = TRUE,
                                          !.token = tokenStorage.AccessToken]
        ELSE IF stored.val.AccessToken = "" THEN failed
        ELSE [failed EXCEPT !.ok = TRUE, !.token = stored.val.AccessToken]

\* what the provider holds and what the token endpoint answers
StoredTokens ==
    {Failure} \cup
    {Success([AccessToken |-> a, TokenType |-> "Bearer", RefreshToken |-> r, Expiry |-> e]) :
        a \in {"", "old"}, r \in {"", "r1"},
        e \in {-1, RefreshHorizon - 1, RefreshHorizon, RefreshHorizon + 1}}
TokenResponses ==
    {Failure} \cup
    {Success([AccessToken |-> a, TokenType |-> "Bearer", RefreshToken |-> "r2", ExpiresIn |-> x]) :
        a \in {"", "new"}, x \in {1, 2}}

CallGetSnykAPIToken ==
    /\ pc = "ready"
    /\ \E stored \in StoredTokens, refresh \in TokenResponses, elapsed \in {0, 1},
          saveOK \in BOOLEAN :
         run' = Called("GetSnykAPIToken",
                       [stored |-> stored, refresh |-> refresh, elapsed |-> elapsed,
                        saveOK |-> saveOK],
                       GetSnykAPIToken(stored, now, refresh, elapsed, saveOK))
    /\ pc' = "returned"
    /\ UNCHANGED <<cacheVars, worldVars, nRuns>>

\* json.Unmarshal of a string value: the escape \u0026 stands for the character &
JSONUnescape(str) == [i \in 1..Len(str) |-> IF str[i] = "\\u0026" THEN "&" ELSE str[i]]

\* a variant of isAbsoluteURL that takes every next link for a relative one
IsAbsoluteURLNever(urlStr) == FALSE

\* isAbsoluteURL
IsAbsoluteURL(urlStr) ==
    Len(urlStr) > 8 /\ (SubSeq(urlStr, 1, 7) = S_http \/ SubSeq(urlStr, 1, 8) = S_https)

\* the API form of an organization and the Organization made of it
ApiOrg(org) == [id |-> org.ID, attributes |-> [name |-> org.Name, slug |-> org.Slug]]
OrganizationOf(item) ==
    [ID |-> item.id, Name |-> item.attributes.name, Slug |-> item.attributes.slug]

\* the server: page k of a list is served at RestBaseURL followed by PagePath(k); a
\* page holds its records and, unless it is the last, the link to the next page
\* written in one of three forms
PagePath(k) == <<"/", "o", "?", "v", "&", "p", "=">> \o <<(<<"1", "2", "3", "4", "5">>)[k]>>
EscapedPagePath(k) ==
    [i \in 1..Len(PagePath(k)) |-> IF PagePath(k)[i] = "&" THEN "\\u0026" ELSE PagePath(k)[i]]
LinkForms == {"relative", "absolute", "escaped"}
NextLink(RestBaseURL, pages, k) ==
    IF k = Len(pages) THEN <<>>
    ELSE CASE pages[k].form = "relative" -> PagePath(k + 1)
           [] pages[k].form = "absolute" -> RestBaseURL \o PagePath(k + 1)
           [] pages[k].form = "escaped" -> EscapedPagePath(k + 1)
RestBaseURLs == {S_https \o <<"h">>, S_https \o <<"h", "/", "r", "e", "s", "t">>}
PageRecords(kind) ==
    IF kind = "orgs" THEN {<<>>, <<ApiOrg(O1)>>, <<ApiOrg(O2), ApiOrg(O1)>>}
    ELSE {<<>>, <<T1>>, <<T2, T1>>}
PageLists(kind) ==
    UNION {[1..n -> [data : PageRecords(kind), form : LinkForms]] : n \in 1..MaxPages}

\* the records of a page as the client appends them
Appended(kind, data) ==
    IF kind = "orgs" THEN [i \in 1..Len(data) |-> OrganizationOf(data[i])] ELSE data

\* getAllOrganizationPages and getAllTargetPages: the loop from nextURL on, all
\* collected so far; a request for a URL at which no page is served fails
RECURSIVE GetAllPages(_, _, _, _, _)
GetAllPages(kind, RestBaseURL, pages, nextURL, all) ==
    IF nextURL = <<>> THEN Success(all)
    ELSE LET served == {k \in 1..Len(pages) : RestBaseURL \o PagePath(k) = nextURL}
         IN  IF served = {} THEN Failure
             ELSE LET k == CHOOSE j \in served : TRUE
                      next == JSONUnescape(NextLink(RestBaseURL, pages, k))
                      collected == all \o Appended(kind, pages[k].data)
                  IN  IF next # <<>>
                      THEN GetAllPages(kind, RestBaseURL, pages,
                                       IF ~IsAbsoluteURL(next) THEN RestBaseURL \o next
                                       ELSE next,
                                       collected)
                      ELSE Success(collected)

\* SnykClient.GetOrganizations and SnykClient.GetTargets against such a server
CallGetAllPages ==
    /\ pc = "ready"
    /\ \E kind \in {"orgs", "targets"}, RestBaseURL \in RestBaseURLs :
         \E pages \in PageLists(kind) :
            run' = Called("getAllPages",
                          [kind |-> kind, RestBaseURL |-> RestBaseURL, pages |-> pages],
                          GetAllPages(kind, RestBaseURL, pages,
                                      RestBaseURL \o PagePath(1), <<>>))
    /\ pc' = "returned"
    /\ UNCHANGED <<cacheVars, worldVars, nRuns>>

\* getAllOrganizationPages and getAllTargetPages request by request, against a
\* server that answers each request as it pleases: GetOrganizations and GetTargets
\* start the loop at the first page with nothing collected
CallListPages ==
    /\ pc = "ready"
    /\ \E kind \in {"orgs", "targets"}, RestBaseURL \in RestBaseURLs :
         run' = Called("listPages", [kind |-> kind, RestBaseURL |-> RestBaseURL],
                       [nextURL |-> RestBaseURL \o PagePath(1), all |-> <<>>,
                        requested |-> {}, again |-> FALSE, err |-> FALSE])
    /\ pc' = "paging"
    /\ UNCHANGED <<cacheVars, worldVars, nRuns>>

\* one iteration of the loop: the request for nextURL fails (transport error, status
\* other than 200, body that cannot be read or decoded) and the call returns nil and
\* the error, or it is answered with a page of records and a next link, which may
\* be empty; the server sends at most MaxPages records in all
RequestPage ==
    /\ pc = "paging"
    /\ LET asked == [run.res EXCEPT !.requested = @ \cup {run.res.nextURL},
                                    !.again = @ \/ run.res.nextURL \in run.res.requested]
       IN  \/ /\ run' = [run EXCEPT !.res = [asked EXCEPT !.all = <<>>, !.err = TRUE,
                                                          !.nextURL = <<>>]]
              /\ pc' = "returned"
           \/ \E data \in PageRecords(run.arg.kind),
                 next \in {<<>>} \cup {PagePath(k) : k \in 1..MaxPages}
                           \cup {run.arg.RestBaseURL \o PagePath(k) : k \in 1..MaxPages} :
                /\ Len(run.res.all) + Len(data) <= MaxPages
                /\ LET collected == run.res.all \o Appended(run.arg.kind, data)
                   IN  IF next # <<>>
                       THEN /\ run' = [run EXCEPT !.res =
                                        [asked EXCEPT !.all = collected,
                                             !.nextURL = IF ~IsAbsoluteURL(next)
                                                         THEN run.arg.RestBaseURL \o next
                                                         ELSE next]]
                            /\ pc' = "paging"
                       ELSE /\ run' = [run EXCEPT !.res = [asked EXCEPT !.all = collected,
                                                                        !.nextURL = <<>>]]
                            /\ pc' = "returned"
    /\ UNCHANGED <<cacheVars, worldVars, nRuns>>

\* the flags registered in init: those without a value and those that take one
BoolFlags == {"--reset-cache", "--list-orgs", "--verbose", "--auto-detect-git"}
ValueFlags == {"--cache-ttl", "--org", "--git-url"}

\* the command line: commands of the wrapped tool, a wrapper flag of each kind, flags
\* of the wrapped tool, and the terminator
CommandLineTokens == {"test", "--verbose", "--org", "--json", "--debug", "--"}

\* rootCmd.Execute up to the call of run: the flag set of rootCmd, which has no
\* FParseErrWhitelist, parses the tokens from the i-th on; flags and arguments may
\* be interspersed, "--" ends the flags, a flag that is not registered is an error
RECURSIVE ParseFlagsFrom(_, _, _, _)
ParseFlagsFrom(tokens, i, flags, args) ==
    IF i > Len(tokens) THEN [ok |-> TRUE, flags |-> flags, args |-> args]
    ELSE LET tok == tokens[i]
         IN  IF tok = "--"
             THEN [ok |-> TRUE, flags |-> flags,
                   args |-> args \o SubSeq(tokens, i + 1, Len(tokens))]
             ELSE IF tok \in BoolFlags
             THEN ParseFlagsFrom(tokens, i + 1, flags \cup {<<tok, "true">>}, args)
             ELSE IF tok \in ValueFlags
             THEN IF i = Len(tokens) THEN [ok |-> FALSE, flags |-> flags, args |-> args]
                  ELSE ParseFlagsFrom(tokens, i + 2, flags \cup {<<tok, tokens[i + 1]>>}, args)
             ELSE IF tok \in {"--json", "--debug"}
             THEN [ok |-> FALSE, flags |-> flags, args |-> args]
             ELSE ParseFlagsFrom(tokens, i + 1, flags, Append(args, tok))

ParseFlags(tokens) == ParseFlagsFrom(tokens, 1, {}, <<>>)

CallParseFlags ==
    /\ pc = "ready"
    /\ \E tokens \in UNION {[1..n -> CommandLineTokens] : n \in 0..MaxTokens} :
         run' = Called("ParseFlags", [tokens |-> tokens], ParseFlags(tokens))
    /\ pc' = "returned"
    /\ UNCHANGED <<cacheVars, worldVars, nRuns>>

LibNext ==
    \/ CallFindOrgWithTargetURL
    \/ CallListPages
    \/ RequestPage
    \/ CallGitURLOfRun
    \/ CallParseFlags
    \/ CallGetAllPages
    \/ CallGetSnykAPIToken
    \/ CallNormalizeRepoURL
    \/ ScanTargets
    \/ LibReturn

LibSpec == LibInit /\ [][LibNext]_vars

\* the loop of a list call goes on while it can: every request is answered or fails
\* within the timeout of the HTTP client
LibFairSpec == LibSpec /\ WF_vars(RequestPage)

----------------------------------------------------------------------------
(* Properties of the functions, stated of LibSpec *)

\* C23: two lookup URLs that differ only in scheme or only in letter case get the
\* same result from FindOrgWithTargetURL and from the target scan of findOrgByGitURL
\* on the same API data
C23_LiveMatchIgnoresSchemeAndCase ==
    /\ Returned("FindOrgWithTargetURL") =>
         \A u2 \in LookupURLs :
            (DifferOnlyInScheme(run.arg.url, u2) \/ DifferOnlyInCase(run.arg.url, u2))
            => FindOrgWithTargetURL(run.arg.orgsOK, run.arg.orgs, run.arg.owner,
                                    run.arg.failing, u2) = run.res
    /\ Returned("scanTargets") =>
         \A u2 \in LookupURLs :
            (DifferOnlyInScheme(run.arg.url, u2) \/ DifferOnlyInCase(run.arg.url, u2))
            => TargetsMatch(run.arg.ts, u2) = run.res.matched

\* C25: wherever NormalizeRepoURL succeeds, applying it to its own output succeeds
\* too and returns the same value
C25_NormalizeIdempotent ==
    (Returned("NormalizeRepoURL") /\ run.res.ok)
    => NormalizeRepoURL(run.res.val) = run.res

\* C26: for every supported form of the repository h/o/r (SSH shorthand with any
\* user, git://, http://, https://, scheme-less, with or without .git and a trailing
\* slash) NormalizeRepoURL returns exactly https://h/o/r
C26_NormalizeCanonical ==
    (Returned("NormalizeRepoURL") /\ run.arg.url \in RepoForms)
    => run.res = Success(URL_https)

FiveMinutes == 5 * 60 * TicksPerSec

\* the stored record of the call is inside the refresh horizon
InsideHorizon == run.arg.stored.ok /\ run.arg.stored.val.Expiry < now + FiveMinutes

\* the record built from the answer of the token endpoint
RefreshedRecord ==
    [AccessToken |-> run.arg.refresh.val.AccessToken,
     TokenType |-> run.arg.refresh.val.TokenType,
     RefreshToken |-> run.arg.refresh.val.RefreshToken,
     Expiry |-> now + run.arg.elapsed + run.arg.refresh.val.ExpiresIn * TicksPerSec]

\* C27 as stated: the refresher is invoked exactly when the stored expiry is earlier
\* than now + 5 minutes; a successful refresh saves the new record and returns the new
\* access token; otherwise the stored access token is returned with no refresh and
\* no save
C27_TokenRefresh ==
    (Returned("GetSnykAPIToken") /\ run.arg.stored.ok) =>
        /\ Len(run.res.refreshCalls) = (IF InsideHorizon THEN 1 ELSE 0)
        /\ (InsideHorizon /\ run.arg.refresh.ok)
           => /\ run.res.saveCalls = <<RefreshedRecord>>
              /\ run.res.ok /\ run.res.token = run.arg.refresh.val.AccessToken
        /\ ~InsideHorizon
           => /\ run.res.ok /\ run.res.token = run.arg.stored.val.AccessToken
              /\ run.res.refreshCalls = <<>> /\ run.res.saveCalls = <<>>

\* C27 as the code has it: the refresher is invoked, once and with the stored refresh
\* token, exactly when the stored expiry is earlier than now + 5 minutes and the
\* stored refresh token is not empty; after a successful refresh SaveToken is called
\* once with the new record (expiry = time of the answer + expires_in) and, if the save
\* succeeds and the new access token is not empty, that token is returned; when the
\* expiry is not earlier than now + 5 minutes there is no refresh and no save, and the
\* stored access token is returned unless it is empty, which is an error
C27_TokenRefreshGivenRefreshToken ==
    (Returned("GetSnykAPIToken") /\ run.arg.stored.ok) =>
        LET st == run.arg.stored.val
        IN  /\ run.res.refreshCalls
               = (IF InsideHorizon /\ st.RefreshToken # "" THEN <<st.RefreshToken>> ELSE <<>>)
            /\ (InsideHorizon /\ st.RefreshToken # "" /\ run.arg.refresh.ok)
               => /\ run.res.saveCalls = <<RefreshedRecord>>
                  /\ IF run.arg.saveOK /\ RefreshedRecord.AccessToken # ""
                     THEN run.res.ok /\ run.res.token = RefreshedRecord.AccessToken
                     ELSE ~run.res.ok /\ run.res.token = ""
            /\ ~InsideHorizon
               => /\ run.res.refreshCalls = <<>> /\ run.res.saveCalls = <<>>
                  /\ IF st.AccessToken # ""
                     THEN run.res.ok /\ run.res.token = st.AccessToken
                     ELSE ~run.res.ok /\ run.res.token = ""

\* a token one tick inside the horizon, refreshed, saved and replaced
C27_Witness ==
    /\ Returned("GetSnykAPIToken") /\ run.arg.stored.ok
    /\ run.arg.stored.val.Expiry = now + FiveMinutes - 1
    /\ run.arg.refresh.ok /\ run.arg.elapsed > 0
    /\ run.res.refreshCalls = <<"r1">>
    /\ run.res.saveCalls = <<RefreshedRecord>>
    /\ run.res.ok /\ run.res.token = "new"

\* C28: with the stored token inside the 5-minute horizon, an empty refresh token or
\* a failed refresh makes GetSnykAPIToken return an error and no token without any
\* SaveToken call, and with an empty refresh token the refresher is not called
C28_RefreshFailure ==
    (/\ Returned("GetSnykAPIToken") /\ InsideHorizon
     /\ run.arg.stored.val.RefreshToken = "" \/ ~run.arg.refresh.ok)
    => /\ ~run.res.ok /\ run.res.token = ""
       /\ run.res.saveCalls = <<>>
       /\ run.arg.stored.val.RefreshToken = "" => run.res.refreshCalls = <<>>

\* an expired token without a refresh token while the token endpoint would answer
C28_Witness ==
    /\ Returned("GetSnykAPIToken") /\ InsideHorizon
    /\ run.arg.stored.val.RefreshToken = "" /\ run.arg.stored.val.AccessToken = "old"
    /\ run.arg.refresh.ok /\ run.arg.saveOK
    /\ ~run.res.ok /\ run.res.refreshCalls = <<>>

\* the records of the pages from the k-th on, one after the other
RECURSIVE RecordsFrom(_, _, _)
RecordsFrom(kind, pages, k) ==
    IF k > Len(pages) THEN <<>>
    ELSE Appended(kind, pages[k].data) \o RecordsFrom(kind, pages, k + 1)

\* C29: of N pages linked by next links GetOrganizations, and likewise GetTargets,
\* returns the records of all pages, in the order of the pages, none dropped and
\* none removed as a duplicate, whether a next link is relative to the base URL,
\* absolute or written with a unicode escape
C29_AllPagesInOrder ==
    Returned("getAllPages")
    => run.res = Success(RecordsFrom(run.arg.kind, run.arg.pages, 1))

\* three pages under a base URL with a path, linked by an escaped and an absolute
\* link, the same organization on two pages
C29_Witness ==
    /\ Returned("getAllPages") /\ run.arg.kind = "orgs"
    /\ Len(run.arg.RestBaseURL) > 9
    /\ Len(run.arg.pages) = 3
    /\ run.arg.pages[1].form = "escaped" /\ run.arg.pages[2].form = "absolute"
    /\ run.res.ok /\ Len(run.res.val) = 5
    /\ run.res.val[1] = O2 /\ run.res.val[2] = O1 /\ run.res.val[3] = O1

\* the URL is one, and a target of ts matches it
MatchedIn(ts, url) == url.ok /\ TargetsMatch(ts, url.val)

\* C39: for the same string u, the run given --git-url=u resolves what the run that
\* detects the origin u resolves: it does not query the remote, and the URL it looks
\* up matches a target list exactly when the URL of the detecting run does, both
\* having gone through the same normalization
C39_ExplicitURLAsDetected ==
    (Returned("gitURLOfRun") /\ run.arg.explicit) =>
        LET detected == GitURLOfRun(<<>>, TRUE, Success(run.arg.u))
        IN  /\ run.res.detections = 0
            /\ \A ts \in {<<>>, <<T1>>, <<T2>>} :
                  MatchedIn(ts, run.res.url) = MatchedIn(ts, detected.url)

\* C40: every paginated list call returns a result or an error whatever the server
\* answers: it requests no page URL twice, and it ends, with the first response that
\* has no next link or with the first request that fails
C40_ListCallTerminates ==
    /\ [](run.op = "listPages" => ~run.res.again)
    /\ (pc = "paging") ~> (pc = "returned")

\* the tokens from the i-th on that are neither a wrapper flag nor its value
RECURSIVE NotWrapperFlags(_, _)
NotWrapperFlags(tokens, i) ==
    IF i > Len(tokens) THEN <<>>
    ELSE IF tokens[i] \in BoolFlags THEN NotWrapperFlags(tokens, i + 1)
    ELSE IF tokens[i] \in ValueFlags THEN NotWrapperFlags(tokens, i + 2)
    ELSE <<tokens[i]>> \o NotWrapperFlags(tokens, i + 1)

\* C30: every token of the command line that is not a wrapper flag, flags unknown to
\* the wrapper included, reaches run as an argument for the wrapped tool, unmodified
\* and in its original order, and no unknown flag makes the invocation fail (stated
\* for command lines without the terminator and without a wrapper flag that lacks
\* its value)
C30_UnknownFlagsPassThrough ==
    (/\ Returned("ParseFlags")
     /\ \A i \in 1..Len(run.arg.tokens) :
           /\ run.arg.tokens[i] # "--"
           /\ run.arg.tokens[i] \in ValueFlags => i < Len(run.arg.tokens))
    => (run.res.ok /\ run.res.args = NotWrapperFlags(run.arg.tokens, 1))

====
